---- MODULE Spec2Model ----
(***************************************************************************)
(* Virtual-pet firmware: the polling quadrature decoder                    *)
(* (rotary_encoder.py), the hierarchical menu (menu.py) and the main loop  *)
(* state machine (main.py).                                                *)
(*                                                                         *)
(* The specifications of this module:                                      *)
(*   SpecEnc   the sampler thread's update() interleaved with the          *)
(*             consumer's read(), the pins and the millisecond timer       *)
(*             being the environment;                                      *)
(*   SpecEncReset  SpecEnc with reset() called between two update() calls; *)
(*   SpecMenu  one Menu object driven through its mutating methods;        *)
(*   SpecApp   the main loop of main(), one action per loop iteration,     *)
(*             the (delta, clicked) pair returned by encoder.read() and    *)
(*             the elapsed time being the inputs;                          *)
(*   SpecAppFaults  SpecApp when the calls the loop makes may raise;       *)
(*   SpecStats the stat gauges under handlers and decay ticks;             *)
(*   SpecStep  one loop iteration from any navigation context;             *)
(*   SpecIter  the loop body statement by statement;                       *)
(*   SpecGames the three minigames' main_loop, poll by poll, for both      *)
(*             decoders;                                                   *)
(*   SpecEncRace   reset() line by line against the sampler;               *)
(*   SpecEncPress  the decoder's button path with the line's history;      *)
(*   SpecTable the transition table along walks of the knob;               *)
(*   SpecIrq   the interrupt-driven decoder (rotary_encoder_irq.py), its   *)
(*             read() line by line against the button handler;             *)
(*   SpecQuiet the main loop with the knob left alone, under weak          *)
(*             fairness of the loop.                                       *)
(***************************************************************************)
EXTENDS Integers, Sequences, FiniteSets, TLC

VARIABLES
    \* ---- hardware ----
    ticks_ms,            \* time.ticks_ms()
    pin_a, pin_b,        \* encoder lines (Pin.value())
    button,              \* button line, active low
    \* ---- RotaryEncoder object (rotary_encoder.py) ----
    last_encoded,        \* self._last_encoded
    last_button,         \* self._last_button
    last_step_time,      \* self._last_step_time
    last_button_time,    \* self._last_button_time
    button_press_time,   \* self._button_press_time (None = NoTime)
    lock,                \* self._lock: "free" or the holder
    rotation_delta,      \* self._rotation_delta
    button_clicked,      \* self._button_clicked
    sampler,             \* polling thread: position in update() and its locals
    consumer,            \* caller of read(): position in read() and its locals
    \* ---- history of the decoder, for stating the properties ----
    outstanding,         \* steps added by the sampler and not yet taken by a read()
    clicksPending,       \* clicks set while the flag was clear, not yet reported
    pressAccepted,       \* an accepted press has not yet been followed by an accepted release
    clicksDue,           \* completed press/release cycles not yet reported or merged
    sinceRead,           \* "sampled": a sampler step ran since the previous read() returned (or no
                         \* read() has returned yet); else what that read() returned: "drained"
                         \* (a step or a click) or "empty"
    drift,               \* steps added minus Gray-cycle positions traversed
    allAdjacent,         \* every accepted transition so far was between adjacent codes
    \* ---- one Menu object driven directly (SpecMenu) ----
    menu,                \* the Menu object
    menuCall,            \* the last method called on it, its argument, the index before
    \* ---- main(): module globals and the locals of main() ----
    app,                 \* see AppInitial for the fields
    iter                 \* history: what the last loop iteration started from and read

encVars == << ticks_ms, pin_a, pin_b, button, last_encoded, last_button,
              last_step_time, last_button_time, button_press_time, lock,
              rotation_delta, button_clicked, sampler, consumer,
              outstanding, clicksPending, pressAccepted, clicksDue, sinceRead,
              drift, allAdjacent >>

menuVars == << menu, menuCall >>
appVars == << app, iter >>

vars == << encVars, menuVars, appVars >>

----------------------------------------------------------------------------
(* Bounds of the model                                                     *)

\* the knob is not turned further while this many steps wait in the accumulator
MaxBurst == 2
\* the timer advances this many times (SpecEnc)
MaxEncTicks == 3

(* Program constants                                                       *)
step_debounce_ms == 5
button_debounce_ms == 35

NoTime == -1

----------------------------------------------------------------------------
(* Helpers                                                                 *)

Abs(x) == IF x < 0 THEN -x ELSE x
Sign(x) == IF x > 0 THEN 1 ELSE IF x < 0 THEN -1 ELSE 0

\* time.ticks_diff(a, b)
ticks_diff(a, b) == a - b

\* (pin_a.value() << 1) | pin_b.value()
Encoded(a, b) == 2 * a + b

\* self._transition_table, indexed by (last << 2) | current
transition_table_flipped ==
    <<  0, -1,  1,  0,
        1,  0,  0,  1,
       -1,  0,  0,  1,
        0,  1, -1,  0 >>
transition_table_one_way ==
    <<  0,  1,  1,  0,
        1,  0,  0, -1,
       -1,  0,  0,  1,
        0,  1, -1,  0 >>
transition_table_jump ==
    <<  0, -1,  1,  1,
        1,  0,  0, -1,
       -1,  0,  0,  1,
        0,  1, -1,  0 >>
transition_table ==
    <<  0, -1,  1,  0,
        1,  0,  0, -1,
       -1,  0,  0,  1,
        0,  1, -1,  0 >>

\* direction = self._transition_table[(self._last_encoded << 2) | current_encoded]
Direction(last, current) == transition_table[(last * 4 + current) + 1]

\* time.ticks_diff(now, last) >= window
DebounceIgnored(now, last, window) == TRUE
DebounceElapsed(now, last, window) == ticks_diff(now, last) >= window

\* read(): "if delta > 1: delta = 1 elif delta < -1: delta = -1"
CapDeltaNone(delta) == delta
CapDelta(delta) == IF delta > 1 THEN 1 ELSE IF delta < -1 THEN -1 ELSE delta

\* _read_button(): "if self._button_press_time is not None" on a release
ReleaseAlwaysClicks(press_time) == TRUE
ReleaseClicks(press_time) == press_time # NoTime

\* position of a 2-bit code on the Gray cycle 00 -> 10 -> 11 -> 01 -> 00,
\* the order the table's comments call clockwise
CyclePos(code) == CASE code = 0 -> 0 [] code = 2 -> 1 [] code = 3 -> 2 [] code = 1 -> 3

\* the two codes differ in exactly one line
Adjacent(a, b) == (CyclePos(b) - CyclePos(a)) % 4 \in {1, 3}

\* the two codes differ in both lines
BothLinesFlip(a, b) == (CyclePos(b) - CyclePos(a)) % 4 = 2

\* positions traversed along the cycle by one adjacent transition: +1 or -1
Traversed(a, b) == IF (CyclePos(b) - CyclePos(a)) % 4 = 1 THEN 1 ELSE -1

----------------------------------------------------------------------------
(* SpecEnc: state after RotaryEncoder.__init__                             *)

SamplerIdle == [pc |-> "rotation", current |-> 0, now |-> 0, direction |-> 0, tmp |-> 0]
ConsumerIdle == [pc |-> "idle", delta |-> 0, clicked |-> FALSE]

EncInit ==
    /\ ticks_ms = 0
    /\ pin_a \in {0, 1}
    /\ pin_b \in {0, 1}
    /\ button \in {0, 1}
    /\ last_encoded = Encoded(pin_a, pin_b)
    /\ last_button = button
    /\ last_step_time = ticks_ms
    /\ last_button_time = ticks_ms
    /\ button_press_time = NoTime
    /\ lock = "free"
    /\ rotation_delta = 0
    /\ button_clicked = FALSE
    /\ sampler = SamplerIdle
    /\ consumer = ConsumerIdle
    /\ outstanding = 0
    /\ clicksPending = 0
    /\ pressAccepted = FALSE
    /\ clicksDue = 0
    /\ sinceRead = "sampled"
    /\ drift = 0
    /\ allAdjacent = TRUE

encObject == << last_encoded, last_button, last_step_time, last_button_time,
                button_press_time, rotation_delta, button_clicked >>
encHistory == << outstanding, clicksPending, pressAccepted, clicksDue, drift,
                 allAdjacent >>
pins == << pin_a, pin_b, button >>

\* self._lock.acquire() / release()
AcquireNoWait(who) == lock' = who
Acquire(who) == lock = "free" /\ lock' = who
Release(who) == lock' = "free"

----------------------------------------------------------------------------
(* The sampler thread: encoder_polling_loop -> update()                    *)

\* _read_rotation, lines 57-70 and, when no step is recorded, line 76
S_ReadRotation ==
    /\ sampler.pc = "rotation"
    /\ sinceRead' = "sampled"
    /\ LET current_encoded == Encoded(pin_a, pin_b)
           now == ticks_ms
       IN  IF /\ current_encoded # last_encoded
              /\ DebounceElapsed(now, last_step_time, step_debounce_ms)
           THEN LET direction == Direction(last_encoded, current_encoded)
                IN  /\ IF Adjacent(last_encoded, current_encoded)
                       THEN /\ drift' = drift - Traversed(last_encoded, current_encoded)
                            /\ UNCHANGED allAdjacent
                       ELSE /\ allAdjacent' = FALSE
                            /\ UNCHANGED drift
                    /\ IF direction # 0
                       THEN /\ sampler' = [pc |-> "rot_acquire", current |-> current_encoded,
                                           now |-> now, direction |-> direction, tmp |-> 0]
                            /\ UNCHANGED last_encoded
                       ELSE /\ last_encoded' = current_encoded
                            /\ sampler' = [SamplerIdle EXCEPT !.pc = "button"]
           ELSE /\ sampler' = [SamplerIdle EXCEPT !.pc = "button"]
                /\ UNCHANGED << last_encoded, drift, allAdjacent >>
    /\ UNCHANGED << menuVars, appVars >>
    /\ UNCHANGED << ticks_ms, pins, last_button, last_step_time, last_button_time,
                    button_press_time, lock, rotation_delta, button_clicked, consumer,
                    outstanding, clicksPending, pressAccepted, clicksDue >>

\* line 71: self._lock.acquire()
S_RotAcquire ==
    /\ sampler.pc = "rot_acquire"
    /\ Acquire("sampler")
    /\ sampler' = [sampler EXCEPT !.pc = "rot_load"]
    /\ sinceRead' = "sampled"
    /\ UNCHANGED << menuVars, appVars >>
    /\ UNCHANGED << ticks_ms, pins, encObject, consumer, encHistory >>

\* line 72, the load half of "self._rotation_delta += direction"
S_RotLoad ==
    /\ sampler.pc = "rot_load"
    /\ sampler' = [sampler EXCEPT !.pc = "rot_store", !.tmp = rotation_delta]
    /\ sinceRead' = "sampled"
    /\ UNCHANGED << menuVars, appVars >>
    /\ UNCHANGED << ticks_ms, pins, encObject, lock, consumer, encHistory >>

\* line 72, the store half
S_RotStore ==
    /\ sampler.pc = "rot_store"
    /\ rotation_delta' = sampler.tmp + sampler.direction
    /\ outstanding' = outstanding + sampler.direction
    /\ drift' = drift + sampler.direction
    /\ sampler' = [sampler EXCEPT !.pc = "rot_release", !.tmp = 0]
    /\ sinceRead' = "sampled"
    /\ UNCHANGED << menuVars, appVars >>
    /\ UNCHANGED << ticks_ms, pins, last_encoded, last_button, last_step_time,
                    last_button_time, button_press_time, button_clicked, lock, consumer,
                    clicksPending, pressAccepted, clicksDue, allAdjacent >>

\* lines 73-76: release, stamp the step time, store the new code
S_RotRelease ==
    /\ sampler.pc = "rot_release"
    /\ Release("sampler")
    /\ last_step_time' = sampler.now
    /\ last_encoded' = sampler.current
    /\ sampler' = [SamplerIdle EXCEPT !.pc = "button"]
    /\ sinceRead' = "sampled"
    /\ UNCHANGED << menuVars, appVars >>
    /\ UNCHANGED << ticks_ms, pins, last_button, last_button_time, button_press_time,
                    rotation_delta, button_clicked, consumer, encHistory >>

\* _read_button, lines 79-88 and, when no click is recorded, line 92
S_ReadButton ==
    /\ sampler.pc = "button"
    /\ sinceRead' = "sampled"
    /\ LET current_button == button
           now == ticks_ms
       IN  IF /\ current_button # last_button
              /\ DebounceElapsed(now, last_button_time, button_debounce_ms)
           THEN /\ last_button_time' = now
                /\ last_button' = current_button
                /\ IF current_button = 0
                   THEN /\ button_press_time' = now
                        /\ sampler' = SamplerIdle
                        /\ pressAccepted' = TRUE
                        /\ UNCHANGED clicksDue
                   ELSE /\ IF ReleaseClicks(button_press_time)
                           THEN /\ sampler' = [SamplerIdle EXCEPT !.pc = "btn_acquire"]
                                /\ UNCHANGED button_press_time
                           ELSE /\ sampler' = SamplerIdle
                                /\ button_press_time' = NoTime
                        /\ pressAccepted' = FALSE
                        /\ clicksDue' = IF pressAccepted THEN clicksDue + 1 ELSE clicksDue
           ELSE /\ sampler' = SamplerIdle
                /\ UNCHANGED << last_button_time, last_button, button_press_time,
                                pressAccepted, clicksDue >>
    /\ UNCHANGED << menuVars, appVars >>
    /\ UNCHANGED << ticks_ms, pins, last_encoded, last_step_time, lock, rotation_delta,
                    button_clicked, consumer, outstanding, clicksPending, drift,
                    allAdjacent >>

\* line 89: self._lock.acquire()
S_BtnAcquire ==
    /\ sampler.pc = "btn_acquire"
    /\ Acquire("sampler")
    /\ sampler' = [sampler EXCEPT !.pc = "btn_set"]
    /\ sinceRead' = "sampled"
    /\ UNCHANGED << menuVars, appVars >>
    /\ UNCHANGED << ticks_ms, pins, encObject, consumer, encHistory >>

\* line 90: self._button_clicked = True
S_BtnSet ==
    /\ sampler.pc = "btn_set"
    /\ button_clicked' = TRUE
    /\ clicksPending' = IF button_clicked THEN clicksPending ELSE clicksPending + 1
    /\ clicksDue' = IF button_clicked THEN clicksDue - 1 ELSE clicksDue
    /\ sampler' = [sampler EXCEPT !.pc = "btn_release"]
    /\ sinceRead' = "sampled"
    /\ UNCHANGED << menuVars, appVars >>
    /\ UNCHANGED << ticks_ms, pins, last_encoded, last_button, last_step_time,
                    last_button_time, button_press_time, rotation_delta, lock, consumer,
                    outstanding, pressAccepted, drift, allAdjacent >>

\* lines 91-92: release, forget the press
S_BtnRelease ==
    /\ sampler.pc = "btn_release"
    /\ Release("sampler")
    /\ button_press_time' = NoTime
    /\ sampler' = SamplerIdle
    /\ sinceRead' = "sampled"
    /\ UNCHANGED << menuVars, appVars >>
    /\ UNCHANGED << ticks_ms, pins, last_encoded, last_button, last_step_time,
                    last_button_time, rotation_delta, button_clicked, consumer,
                    encHistory >>

----------------------------------------------------------------------------
(* The consumer: RotaryEncoder.read()                                      *)

\* line 98: self._lock.acquire()
R_Acquire ==
    /\ consumer.pc = "idle"
    /\ Acquire("consumer")
    /\ consumer' = [consumer EXCEPT !.pc = "load"]
    /\ UNCHANGED << menuVars, appVars >>
    /\ UNCHANGED << ticks_ms, pins, encObject, sampler, encHistory, sinceRead >>

\* lines 99-100: delta = self._rotation_delta; clicked = self._button_clicked
R_Load ==
    /\ consumer.pc = "load"
    /\ consumer' = [pc |-> "clear", delta |-> rotation_delta, clicked |-> button_clicked]
    /\ outstanding' = outstanding - rotation_delta
    /\ clicksPending' = IF button_clicked THEN clicksPending - 1 ELSE clicksPending
    /\ clicksDue' = IF button_clicked THEN clicksDue - 1 ELSE clicksDue
    /\ UNCHANGED << menuVars, appVars >>
    /\ UNCHANGED << ticks_ms, pins, encObject, lock, sampler, pressAccepted, drift,
                    allAdjacent, sinceRead >>

\* lines 101-102: self._rotation_delta = 0; self._button_clicked = False
R_ClearFlagOnly ==
    /\ consumer.pc = "clear"
    /\ button_clicked' = FALSE
    /\ consumer' = [consumer EXCEPT !.pc = "release"]
    /\ UNCHANGED << menuVars, appVars >>
    /\ UNCHANGED << ticks_ms, pins, last_encoded, last_button, last_step_time,
                    last_button_time, button_press_time, rotation_delta, lock, sampler,
                    encHistory, sinceRead >>
R_Clear ==
    /\ consumer.pc = "clear"
    /\ rotation_delta' = 0
    /\ button_clicked' = FALSE
    /\ consumer' = [consumer EXCEPT !.pc = "release"]
    /\ UNCHANGED << menuVars, appVars >>
    /\ UNCHANGED << ticks_ms, pins, last_encoded, last_button, last_step_time,
                    last_button_time, button_press_time, lock, sampler, encHistory,
                    sinceRead >>

\* what read() is about to return, lines 106-111
ReadResult == << CapDelta(consumer.delta), consumer.clicked >>

\* lines 103-111: release, cap, return
R_Return ==
    /\ consumer.pc = "release"
    /\ Release("consumer")
    /\ consumer' = ConsumerIdle
    /\ sinceRead' = IF ReadResult = << 0, FALSE >> THEN "empty" ELSE "drained"
    /\ UNCHANGED << menuVars, appVars >>
    /\ UNCHANGED << ticks_ms, pins, encObject, sampler, encHistory >>

----------------------------------------------------------------------------
(* The environment of the decoder: the knob, the button, the timer         *)

EnvTurnA ==
    /\ Abs(rotation_delta) < MaxBurst
    /\ pin_a' = 1 - pin_a
    /\ UNCHANGED << menuVars, appVars >>
    /\ UNCHANGED << ticks_ms, pin_b, button, encObject, lock, sampler, consumer,
                    encHistory, sinceRead >>

EnvTurnB ==
    /\ Abs(rotation_delta) < MaxBurst
    /\ pin_b' = 1 - pin_b
    /\ UNCHANGED << menuVars, appVars >>
    /\ UNCHANGED << ticks_ms, pin_a, button, encObject, lock, sampler, consumer,
                    encHistory, sinceRead >>

EnvButton ==
    /\ button' = 1 - button
    /\ UNCHANGED << menuVars, appVars >>
    /\ UNCHANGED << ticks_ms, pin_a, pin_b, encObject, lock, sampler, consumer,
                    encHistory, sinceRead >>

\* the timer advances by a whole debounce window
EncTickSteps == {button_debounce_ms}

EnvTick ==
    /\ \E d \in EncTickSteps :
          /\ ticks_ms + d <= MaxEncTicks * button_debounce_ms
          /\ ticks_ms' = ticks_ms + d
    /\ UNCHANGED << menuVars, appVars >>
    /\ UNCHANGED << pins, encObject, lock, sampler, consumer, encHistory, sinceRead >>

NextEnc ==
    \/ S_ReadRotation \/ S_RotAcquire \/ S_RotLoad \/ S_RotStore \/ S_RotRelease
    \/ S_ReadButton \/ S_BtnAcquire \/ S_BtnSet \/ S_BtnRelease
    \/ R_Acquire \/ R_Load \/ R_Clear \/ R_Return
    \/ EnvTurnA \/ EnvTurnB \/ EnvButton \/ EnvTick

----------------------------------------------------------------------------
(* SpecEncReset: the decoder when its owner also calls reset() between two *)
(* update() calls of the sampler                                           *)

\* sinceRead after a reset(): the pin levels reset() read, until the sampler's
\* next step or the next read() return
ResetMark(a, b, btn) ==
    << "reset 000", "reset 001", "reset 010", "reset 011",
       "reset 100", "reset 101", "reset 110", "reset 111" >>[4 * a + 2 * b + btn + 1]
ResetMarks == { ResetMark(a, b, btn) : a \in {0, 1}, b \in {0, 1}, btn \in {0, 1} }

\* line 124: self._button_press_time = None
ResetKeepsPressTime(press_time) == press_time
ResetPressTime(press_time) == NoTime

\* RotaryEncoder.reset(), lines 113-124, run by the thread that calls read(),
\* while the sampler is between two update() calls.  consumer.was keeps what
\* reset() found (accumulator, flag, a pending press, the button held) until
\* the next read() loads
E_Reset ==
    /\ sampler.pc = "rotation"
    /\ consumer.pc = "idle"
    /\ lock = "free"
    /\ rotation_delta' = 0
    /\ button_clicked' = FALSE
    /\ last_encoded' = Encoded(pin_a, pin_b)
    /\ last_button' = button
    /\ last_step_time' = ticks_ms
    /\ last_button_time' = ticks_ms
    /\ button_press_time' = ResetPressTime(button_press_time)
    /\ consumer' = [pc |-> "idle", delta |-> 0, clicked |-> FALSE,
                    was |-> [delta |-> rotation_delta, clicked |-> button_clicked,
                             pressed |-> button_press_time # NoTime,
                             held |-> button = 0]]
    /\ sinceRead' = ResetMark(pin_a, pin_b, button)
    /\ outstanding' = 0
    /\ clicksPending' = 0
    /\ clicksDue' = 0
    /\ pressAccepted' = FALSE
    /\ drift' = 0
    /\ allAdjacent' = TRUE
    /\ UNCHANGED << ticks_ms, pins, lock, sampler >>
    /\ UNCHANGED << menuVars, appVars >>

NextEncReset == NextEnc \/ E_Reset

----------------------------------------------------------------------------
(* SpecTable: the transition table applied to a walk of the knob in which  *)
(* every change of one line is a sample the decoder accepts (lines 66-76,  *)
(* each sample one debounce window after the last).  iter holds the code the walk        *)
(* started on, the codes visited, the number of changes and the position   *)
(* on the code cycle counted from the start.                               *)

\* changes of a line in one walk
MaxHops == 6

TableInit ==
    iter = [start |-> last_encoded, visited |-> {last_encoded}, hops |-> 0, pos |-> 0]

\* lines 57-76 on a sample that differs from the stored code in one line and
\* is read step_debounce_ms after the sample before it
Accepted(a, b) ==
    LET current_encoded == Encoded(a, b)
        now == ticks_ms + step_debounce_ms
        direction == Direction(last_encoded, current_encoded)
    IN  /\ iter.hops < MaxHops
        /\ current_encoded # last_encoded
        /\ DebounceElapsed(now, last_step_time, step_debounce_ms)
        /\ ticks_ms' = now
        /\ pin_a' = a
        /\ pin_b' = b
        /\ rotation_delta' = rotation_delta + direction
        /\ last_step_time' = IF direction # 0 THEN now ELSE last_step_time
        /\ last_encoded' = current_encoded
        /\ iter' = [iter EXCEPT !.visited = @ \cup {current_encoded},
                                !.hops = @ + 1,
                                !.pos = @ + Traversed(last_encoded, current_encoded)]
        /\ UNCHANGED << button, last_button, last_button_time,
                        button_press_time, button_clicked, lock, sampler, consumer,
                        encHistory, sinceRead >>
        /\ UNCHANGED << menuVars, app >>

W_LineA == Accepted(1 - pin_a, pin_b)
W_LineB == Accepted(pin_a, 1 - pin_b)

NextTable == W_LineA \/ W_LineB

----------------------------------------------------------------------------
(* SpecEncRace: reset() as the steps of the thread that calls it, running  *)
(* against the sampler, with the knob at rest and the button in use.  Only *)
(* lines 115-118 hold the lock.                                            *)

ResetSection == {"x_clear", "x_codes", "x_times", "x_press"}

\* the sampler has read the pins and waits for the lock
SampleInFlight == sampler.pc \in {"rot_acquire", "btn_acquire"}

\* the sampler carries a sample it took before a reset() began
Stale == "stale" \in DOMAIN sampler

\* line 115: self._lock.acquire().  A sample the sampler already holds is
\* marked as taken before this reset() began
X_Acquire ==
    /\ consumer.pc = "idle"
    /\ Acquire("consumer")
    /\ consumer' = [consumer EXCEPT !.pc = "x_clear"]
    /\ sampler' = IF SampleInFlight
                  THEN [pc |-> sampler.pc, current |-> sampler.current, now |-> sampler.now,
                        direction |-> sampler.direction, tmp |-> sampler.tmp,
                        stale |-> TRUE]
                  ELSE sampler
    /\ UNCHANGED << ticks_ms, pins, encObject, encHistory, sinceRead >>
    /\ UNCHANGED << menuVars, appVars >>

\* lines 116-118: clear the accumulator and the flag, release
X_Clear ==
    /\ consumer.pc = "x_clear"
    /\ rotation_delta' = 0
    /\ button_clicked' = FALSE
    /\ Release("consumer")
    /\ consumer' = [consumer EXCEPT !.pc = "x_codes"]
    /\ outstanding' = 0
    /\ clicksPending' = 0
    /\ clicksDue' = 0
    /\ UNCHANGED << ticks_ms, pins, last_encoded, last_button, last_step_time,
                    last_button_time, button_press_time, sampler, pressAccepted, drift,
                    allAdjacent, sinceRead >>
    /\ UNCHANGED << menuVars, appVars >>

\* lines 119-120: store the codes the pins show now
X_Codes ==
    /\ consumer.pc = "x_codes"
    /\ last_encoded' = Encoded(pin_a, pin_b)
    /\ last_button' = button
    /\ consumer' = [consumer EXCEPT !.pc = "x_times"]
    /\ drift' = 0
    /\ allAdjacent' = TRUE
    /\ UNCHANGED << ticks_ms, pins, last_step_time, last_button_time, button_press_time,
                    rotation_delta, button_clicked, lock, sampler, outstanding,
                    clicksPending, pressAccepted, clicksDue, sinceRead >>
    /\ UNCHANGED << menuVars, appVars >>

\* lines 121-123: restart both debounce windows
X_Times ==
    /\ consumer.pc = "x_times"
    /\ last_step_time' = ticks_ms
    /\ last_button_time' = ticks_ms
    /\ consumer' = [consumer EXCEPT !.pc = "x_press"]
    /\ UNCHANGED << ticks_ms, pins, last_encoded, last_button, button_press_time,
                    rotation_delta, button_clicked, lock, sampler, encHistory, sinceRead >>
    /\ UNCHANGED << menuVars, appVars >>

\* line 124: self._button_press_time = None, and reset() returns
X_Press ==
    /\ consumer.pc = "x_press"
    /\ button_press_time' = ResetPressTime(button_press_time)
    /\ consumer' = ConsumerIdle
    /\ pressAccepted' = FALSE
    /\ UNCHANGED << ticks_ms, pins, last_encoded, last_button, last_step_time,
                    last_button_time, rotation_delta, button_clicked, lock, sampler,
                    outstanding, clicksPending, clicksDue, drift, allAdjacent, sinceRead >>
    /\ UNCHANGED << menuVars, appVars >>

NextEncRace ==
    \/ S_ReadRotation \/ S_ReadButton \/ S_BtnAcquire \/ S_BtnSet \/ S_BtnRelease
    \/ R_Acquire \/ R_Load \/ R_Clear \/ R_Return
    \/ X_Acquire \/ X_Clear \/ X_Codes \/ X_Times \/ X_Press
    \/ EnvButton \/ EnvTick

----------------------------------------------------------------------------
(* SpecEncPress: the decoder with the knob at rest and the button line     *)
(* watched.  iter holds the history of the line: since when it is low,     *)
(* and whether it has ever stayed low for button_debounce_ms or longer.    *)

LineInit ==
    iter = [low_since |-> IF button = 0 THEN ticks_ms ELSE NoTime, persisted |-> FALSE]

\* the button line changes level
P_Button ==
    /\ button' = 1 - button
    /\ iter' = IF button = 1
               THEN [iter EXCEPT !.low_since = ticks_ms]
               ELSE [low_since |-> NoTime,
                     persisted |-> \/ iter.persisted
                                   \/ ticks_diff(ticks_ms, iter.low_since) >= button_debounce_ms]
    /\ UNCHANGED << ticks_ms, pin_a, pin_b, encObject, lock, sampler, consumer,
                    encHistory, sinceRead >>
    /\ UNCHANGED << menuVars, app >>

NextEncPress ==
    \/ S_ReadRotation \/ S_ReadButton \/ S_BtnAcquire \/ S_BtnSet \/ S_BtnRelease
    \/ R_Acquire \/ R_Load \/ R_Clear \/ R_Return
    \/ P_Button \/ EnvTick

----------------------------------------------------------------------------
(* menu.py: class Menu.  A Menu object is a record; each method is an      *)
(* operator from the object to the object after the call.                  *)

None == "None"

Max(a, b) == IF a > b THEN a ELSE b
Min(a, b) == IF a < b THEN a ELSE b

\* Menu.__init__(title, items, parent, visible_count)
Menu_init(title, items, parent, visible_count) ==
    [title |-> title, parent |-> parent, items |-> items, index |-> 0,
     view_offset |-> 0, visible_count |-> Max(1, visible_count)]

\* Menu.ensure_visible without the scroll-down branch (lines 59-60)
Menu_ensure_visible_no_scroll_down(m) ==
    LET count == Len(m.items) IN
    IF count = 0 THEN [m EXCEPT !.index = 0, !.view_offset = 0]
    ELSE LET index == IF m.index < 0 THEN 0
                      ELSE IF m.index >= count THEN count - 1 ELSE m.index
             off1 == IF index < m.view_offset THEN index ELSE m.view_offset
             max_offset == Max(0, count - m.visible_count)
             off2 == IF off1 > max_offset THEN max_offset ELSE off1
             off3 == IF off2 < 0 THEN 0 ELSE off2
         IN  [m EXCEPT !.index = index, !.view_offset = off3]

\* Menu.ensure_visible putting a selection below the window on the top row
Menu_ensure_visible_top_row(m) ==
    LET count == Len(m.items) IN
    IF count = 0 THEN [m EXCEPT !.index = 0, !.view_offset = 0]
    ELSE LET index == IF m.index < 0 THEN 0
                      ELSE IF m.index >= count THEN count - 1 ELSE m.index
             off1 == IF index < m.view_offset THEN index
                     ELSE IF index >= m.view_offset + m.visible_count
                          THEN index
                          ELSE m.view_offset
             max_offset == Max(0, count - m.visible_count)
             off2 == IF off1 > max_offset THEN max_offset ELSE off1
             off3 == IF off2 < 0 THEN 0 ELSE off2
         IN  [m EXCEPT !.index = index, !.view_offset = off3]

\* Menu.ensure_visible
Menu_ensure_visible(m) ==
    LET count == Len(m.items) IN
    IF count = 0 THEN [m EXCEPT !.index = 0, !.view_offset = 0]
    ELSE LET index == IF m.index < 0 THEN 0
                      ELSE IF m.index >= count THEN count - 1 ELSE m.index
             off1 == IF index < m.view_offset THEN index
                     ELSE IF index >= m.view_offset + m.visible_count
                          THEN index - m.visible_count + 1
                          ELSE m.view_offset
             max_offset == Max(0, count - m.visible_count)
             off2 == IF off1 > max_offset THEN max_offset ELSE off1
             off3 == IF off2 < 0 THEN 0 ELSE off2
         IN  [m EXCEPT !.index = index, !.view_offset = off3]

\* "(self._index + delta) % count": Python's % takes the sign of the divisor
MovedIndexClamped(index, delta, count) == Max(0, Min(count - 1, index + delta))
MovedIndex(index, delta, count) == (index + delta) % count

\* Menu.move
Menu_move(m, delta) ==
    IF Len(m.items) = 0 \/ delta = 0 THEN m
    ELSE Menu_ensure_visible([m EXCEPT !.index = MovedIndex(m.index, delta, Len(m.items))])

\* Menu.reset
Menu_reset_nothing(m) == m
Menu_reset_offset_only(m) == [m EXCEPT !.view_offset = 0]
Menu_reset(m) == [m EXCEPT !.index = 0, !.view_offset = 0]

\* Menu.set_items
Menu_set_items(m, items) == Menu_reset([m EXCEPT !.items = items])

\* Menu.set_parent
Menu_set_parent(m, parent) == [m EXCEPT !.parent = parent]

\* Menu.set_visible_count
Menu_set_visible_count(m, count) ==
    Menu_ensure_visible([m EXCEPT !.visible_count = Max(1, count)])

\* Menu.selected
Menu_selected(m) == IF Len(m.items) = 0 THEN None ELSE m.items[m.index + 1]

----------------------------------------------------------------------------
(* SpecMenu: one Menu object and any sequence of calls on it               *)

\* longest item list tried
MaxItems == 4
\* largest visible_count tried (the smallest is 0, which the class raises to 1)
MaxVisible == 4
\* largest |delta| passed to move()
MaxDelta == 5

TestItems(n) == [i \in 1..n |-> [label |-> i, type |-> "action"]]

NoCall == [op |-> "init", arg |-> 0, index |-> 0]

MenuInit ==
    /\ \E n \in 0..MaxItems, v \in 0..MaxVisible :
          menu = Menu_init("Test", TestItems(n), None, v)
    /\ menuCall = NoCall

M_Move ==
    /\ \E delta \in -MaxDelta..MaxDelta :
          /\ menu' = Menu_move(menu, delta)
          /\ menuCall' = [op |-> "move", arg |-> delta, index |-> menu.index]
    /\ UNCHANGED << encVars, appVars >>

M_Reset ==
    /\ menu' = Menu_reset(menu)
    /\ menuCall' = [op |-> "reset", arg |-> 0, index |-> menu.index]
    /\ UNCHANGED << encVars, appVars >>

M_SetItems ==
    /\ \E n \in 0..MaxItems :
          /\ menu' = Menu_set_items(menu, TestItems(n))
          /\ menuCall' = [op |-> "set_items", arg |-> n, index |-> menu.index]
    /\ UNCHANGED << encVars, appVars >>

M_SetVisibleCount ==
    /\ \E v \in 0..MaxVisible :
          /\ menu' = Menu_set_visible_count(menu, v)
          /\ menuCall' = [op |-> "set_visible_count", arg |-> v, index |-> menu.index]
    /\ UNCHANGED << encVars, appVars >>

NextMenu == M_Move \/ M_Reset \/ M_SetItems \/ M_SetVisibleCount

----------------------------------------------------------------------------
(* Properties of Menu (SpecMenu)                                           *)

\* C7: viewport invariant. After any sequence of move, reset, set_items and
\* set_visible_count calls the selection is inside the window, the offset is
\* between 0 and max(0, item_count - visible_count), and on a non-empty menu
\* the index is a valid position.
C7_ViewportInvariant ==
    LET count == Len(menu.items) IN
    /\ menu.visible_count >= 1
    /\ menu.view_offset <= menu.index
    /\ menu.index < menu.view_offset + menu.visible_count
    /\ 0 <= menu.view_offset
    /\ menu.view_offset <= Max(0, count - menu.visible_count)
    /\ count > 0 => (0 <= menu.index /\ menu.index < count)

\* a move that wrapped from the first item to the last and scrolled the window
\* down to its last position
C7_Witness ==
    /\ menuCall.op = "move"
    /\ menuCall.index = 0
    /\ menu.index = Len(menu.items) - 1
    /\ menu.view_offset > 0
    /\ menu.view_offset = Len(menu.items) - menu.visible_count

\* C8: move wraps around. After move(delta) on a menu of n > 0 items the index
\* is the one position of 0..n-1 congruent to (index before + delta) modulo n;
\* move(+1) from the last item gives 0 and move(-1) from the first gives n-1.
C8_MoveWraps ==
    LET n == Len(menu.items)
        target == menuCall.index + menuCall.arg
    IN  (menuCall.op = "move" /\ n > 0) =>
            /\ menu.index \in 0..(n - 1)
            /\ \E k \in -(MaxDelta + 1)..(MaxDelta + 1) : menu.index = target + k * n
            /\ (menuCall.arg = 1 /\ menuCall.index = n - 1) => menu.index = 0
            /\ (menuCall.arg = -1 /\ menuCall.index = 0) => menu.index = n - 1

\* a backward move of more than a whole turn of the list
C8_Witness ==
    /\ menuCall.op = "move"
    /\ Len(menu.items) >= 2
    /\ menuCall.arg < -Len(menu.items)
    /\ menuCall.index + menuCall.arg < -Len(menu.items)

\* C31: window stability. move(delta) leaves the viewport offset unchanged
\* whenever the new selected index lies within [offset, offset + visible_count);
\* when it lies above the window the new offset is the index (selection on the
\* top row), when it lies below the new offset is index - visible_count + 1
\* (selection on the bottom row): the smallest change that shows the selection.
C31_WindowStable ==
    [][menuCall'.op = "move" =>
          LET index == menu'.index
              offset == menu.view_offset
              visible == menu.visible_count
          IN  /\ (offset <= index /\ index < offset + visible) =>
                     menu'.view_offset = offset
              /\ index < offset => menu'.view_offset = index
              /\ index >= offset + visible =>
                     menu'.view_offset = index - visible + 1]_vars

\* a move down the list, without wrapping, that left the window and pulled it
\* down to a position that is not its last
C31_Witness ==
    /\ menuCall.op = "move"
    /\ menuCall.arg > 0
    /\ menu.visible_count > 1
    /\ menu.index = menuCall.index + menuCall.arg
    /\ menu.view_offset = menu.index - menu.visible_count + 1
    /\ menu.view_offset > 0
    /\ menu.view_offset < Len(menu.items) - menu.visible_count

----------------------------------------------------------------------------
(* main.py: constants, stats, handlers, the menu tree                      *)

MENU_IDLE_TIMEOUT_MS == 6000
ACTION_VIEW_DURATION_MS == 3000
MENU_VISIBLE_COUNT == 3
FRAME_TIME == 800
TARGET_FPS == 15
RENDER_INTERVAL_MS == (1000 + TARGET_FPS - 1) \div TARGET_FPS
SENSOR_UPDATE_INTERVAL_MS == 2000
MOOD_CHANGE_INTERVAL == 5 * 60 * 1000
WEATHER_UPDATE_INTERVAL == 10 * 60 * 1000
STAT_MIN == 0
STAT_MAX == 100
STAT_DECAY_INTERVAL_MS == 120000
STAT_DECAY_AMOUNT == 1

STATE_IDLE == "idle"
STATE_MENU == "menu"
STATE_STATS == "stats"
STATE_MESSAGE == "message"
STATE_MINIGAME == "minigame"

STAT_KEYS == << "Energy", "Hunger", "Health" >>
MOODS == << "happy", "sad", "bored", "love", "pouting" >>

clamp_low_only(value, low, high) ==
    IF value < low THEN low ELSE value
clamp(value, low, high) ==
    IF value < low THEN low ELSE IF value > high THEN high ELSE value

clamp_stat(value) == clamp(value, STAT_MIN, STAT_MAX)

\* adjust_stat(name, delta)
adjust_stat(a, name, delta) ==
    [a EXCEPT !.stats_values[name] = clamp_stat(@ + delta)]

\* decay_stats(amount)
decay_stats(a, amount) ==
    [a EXCEPT !.stats_values =
        [k \in DOMAIN a.stats_values |-> clamp_stat(a.stats_values[k] - amount)]]

\* handle_feed_action(); a.clock is time.ticks_ms()
handle_feed_action(a) ==
    [adjust_stat(adjust_stat(a, "Hunger", 25), "Health", 5)
        EXCEPT !.current_mood = "happy", !.frame_idx = 0, !.last_mood_change = a.clock]

\* handle_play_action()
handle_play_action(a) ==
    [adjust_stat(adjust_stat(adjust_stat(a, "Energy", -10), "Hunger", -5), "Health", 8)
        EXCEPT !.current_mood = "love", !.frame_idx = 0, !.last_mood_change = a.clock]

\* handle_doctor_action()
handle_doctor_action(a) ==
    [adjust_stat(adjust_stat(a, "Health", 25), "Energy", 5)
        EXCEPT !.current_mood = "pouting", !.frame_idx = 0, !.last_mood_change = a.clock]

\* toggle_rain_mode()
toggle_rain_mode(a) == [a EXCEPT !.manual_rain_mode = ~@]

\* change_mood(): roll is "skip" (random.random() >= 0.5) or the mood chosen
change_mood(a, roll) == IF roll = "skip" THEN a ELSE [a EXCEPT !.current_mood = roll]

\* GAME_NAME of each minigame module
GameName(module) ==
    CASE module = "minigame_a" -> "Reaction Time"
      [] module = "minigame_b" -> "Perfect 10"
      [] module = "minigame_c" -> "Spin"

\* build_menu_structure(): the four Menu objects, by name; returns main_menu
build_menu_structure ==
    [ minigames |->
        Menu_set_parent(
          Menu_init("Minigames",
            << [label |-> "React Time", type |-> "minigame", module |-> "minigame_a"],
               [label |-> "Count 2 10", type |-> "minigame", module |-> "minigame_b"],
               [label |-> "Spin", type |-> "minigame", module |-> "minigame_c"],
               [label |-> "Back", type |-> "back"] >>,
            None, MENU_VISIBLE_COUNT),
          "pet"),
      pet |->
        Menu_set_parent(
          Menu_init("Pet",
            << [label |-> "Feed", type |-> "action", handler |-> "handle_feed_action",
                message |-> "Feeding", subtitle |-> "Yum!"],
               [label |-> "Play", type |-> "submenu", submenu |-> "minigames"],
               [label |-> "Doctor", type |-> "action", handler |-> "handle_doctor_action",
                message |-> "Doctor visit", subtitle |-> "All better"],
               [label |-> "Back", type |-> "back"] >>,
            None, MENU_VISIBLE_COUNT),
          "main"),
      settings |->
        Menu_set_parent(
          Menu_init("Settings",
            << [label |-> "Rain", type |-> "toggle", toggle |-> "toggle_rain_mode"],
               [label |-> "Soft Reset", type |-> "action", handler |-> "handle_soft_reset",
                message |-> "Rebooting", subtitle |-> "See you soon!"],
               [label |-> "Back", type |-> "back"] >>,
            None, MENU_VISIBLE_COUNT),
          "main"),
      main |->
        Menu_init("Menu",
            << [label |-> "Pet", type |-> "submenu", submenu |-> "pet"],
               [label |-> "Stats", type |-> "state", state |-> STATE_STATS],
               [label |-> "Settings", type |-> "submenu", submenu |-> "settings"] >>,
            None, MENU_VISIBLE_COUNT) ]

\* module globals (lines 321-344) and main()'s locals at "while True" (lines 811-836)
\* when the device has booted at time now; clock is the timer during an iteration
AppInitial(now, wifi_ok) ==
    [ clock |-> now,
      rebooted |-> FALSE,
      fault |-> "none",       \* which call raises an exception in this iteration
      crashed |-> FALSE,      \* an exception has left main(): the loop has ended
      wifi_ok |-> wifi_ok,
      current_mood |-> "happy",
      frame_idx |-> 0,
      manual_rain_mode |-> FALSE,
      stats_values |-> [Energy |-> 80, Hunger |-> 65, Health |-> 75],
      menus |-> build_menu_structure,
      last_frame_sw |-> now,
      last_mood_change |-> now,
      last_weather_update |-> now,
      last_render |-> now,
      last_sensor_update |-> now,
      last_stat_decay |-> now,
      current_state |-> STATE_IDLE,
      state_entered_at |-> now,
      menu_last_interaction |-> now,
      menu_stack |-> << >>,
      menu_after_message |-> << >>,
      message_text |-> "",
      message_subtext |-> None,
      message_return_state |-> STATE_IDLE,
      pending_minigame |-> None,
      minigame_return_menu_stack |-> << >> ]

----------------------------------------------------------------------------
(* main(): one pass of "while True" (lines 839-1001), as operators on the  *)
(* record of globals and locals                                            *)

Top(stack) == stack[Len(stack)]
\* menu_stack.pop(), line 919
PopToRoot(stack) == SubSeq(stack, 1, 1)
Pop(stack) == SubSeq(stack, 1, Len(stack) - 1)

\* lines 849-851
SensorTick(a, now) ==
    IF ticks_diff(now, a.last_sensor_update) >= SENSOR_UPDATE_INTERVAL_MS
    THEN [a EXCEPT !.last_sensor_update = now] ELSE a

\* lines 853-855
MoodTick(a, now, roll) ==
    IF ticks_diff(now, a.last_mood_change) >= MOOD_CHANGE_INTERVAL
    THEN [change_mood(a, roll) EXCEPT !.last_mood_change = now] ELSE a

\* lines 857-859
WeatherTick(a, now) ==
    IF a.wifi_ok /\ ticks_diff(now, a.last_weather_update) >= WEATHER_UPDATE_INTERVAL
    THEN [a EXCEPT !.last_weather_update = now] ELSE a

\* lines 861-863
DecayTick(a, now) ==
    IF ticks_diff(now, a.last_stat_decay) >= STAT_DECAY_INTERVAL_MS
    THEN [decay_stats(a, STAT_DECAY_AMOUNT) EXCEPT !.last_stat_decay = now] ELSE a

\* lines 865-867
AnimationTick(a, now) ==
    IF ticks_diff(now, a.last_frame_sw) >= FRAME_TIME
    THEN [a EXCEPT !.frame_idx = (@ + 1) % 2, !.last_frame_sw = now] ELSE a

\* lines 849-867: the periodic ticks, in source order
BackgroundTicks(a, now, roll) ==
    LET a1 == SensorTick(a, now)
        a2 == MoodTick(a1, now, roll)
        a3 == WeatherTick(a2, now)
        a4 == DecayTick(a3, now)
        a5 == AnimationTick(a4, now)
    IN  a5

\* the rolls change_mood can make in this pass
MoodRolls(a, now) ==
    IF ticks_diff(now, a.last_mood_change) >= MOOD_CHANGE_INTERVAL
    THEN {"skip"} \cup {MOODS[i] : i \in DOMAIN MOODS}
    ELSE {"skip"}

\* lines 887-889 (and 897-899): main_menu.reset(); ensure_visible(); menu_stack = [main_menu]
OpenRootKeepingSelection(a) ==
    [a EXCEPT !.menu_stack = << "main" >>]
OpenRoot(a) ==
    [a EXCEPT !.menus["main"] = Menu_ensure_visible(Menu_reset(@)),
              !.menu_stack = << "main" >>]

\* lines 885-893: STATE_IDLE
IdleBranch(a, now, clicked) ==
    IF clicked
    THEN [OpenRoot(a) EXCEPT !.current_state = STATE_MENU,
                             !.state_entered_at = now,
                             !.menu_last_interaction = now]
    ELSE a

\* lines 942-951: an action item (any type not matched before)
RecordReturnNothing(a) == << >>
RecordReturnRoot(a) == << "main" >>
RecordReturn(a) == a.menu_stack

ActionItem(a, now, item) ==
    IF a.fault = "handler"
    THEN [a EXCEPT !.crashed = TRUE]           \* handler() at line 945 is in no try block
    ELSE IF item.handler = "handle_soft_reset"
    THEN [a EXCEPT !.rebooted = TRUE]          \* machine.reset(): the device restarts
    ELSE LET a1 == CASE item.handler = "handle_feed_action" -> handle_feed_action(a)
                     [] item.handler = "handle_doctor_action" -> handle_doctor_action(a)
             rec == RecordReturn(a1)
         IN  [a1 EXCEPT !.message_text = item.message,
                        !.message_subtext = item.subtitle,
                        !.menu_after_message = rec,
                        !.message_return_state =
                            IF rec # << >> THEN STATE_MENU ELSE STATE_IDLE,
                        !.current_state = STATE_MESSAGE,
                        !.state_entered_at = now]

\* line 939: minigame_return_menu_stack = list(menu_stack)
PreserveStackRootOnly(a) == << "main" >>
PreserveStack(a) == a.menu_stack

\* lines 921-923, 953-955, 969-971: menu_stack = []; current_state = STATE_IDLE;
\* state_entered_at = now
ToIdleKeepingStack(a, now) ==
    [a EXCEPT !.current_state = STATE_IDLE, !.state_entered_at = now]
ToIdle(a, now) ==
    [a EXCEPT !.menu_stack = << >>, !.current_state = STATE_IDLE, !.state_entered_at = now]

\* lines 906-951: a click in the menu, on the selected item
MenuClick(a, now, current_menu) ==
    LET a0 == [a EXCEPT !.menu_last_interaction = now] IN
    IF Len(a.menus[current_menu].items) = 0 THEN a0
    ELSE LET item == Menu_selected(a.menus[current_menu]) IN
         CASE item.type = "submenu" ->
                [a0 EXCEPT !.menus[item.submenu] =
                               Menu_set_parent(Menu_reset(@), current_menu),
                           !.menu_stack = Append(@, item.submenu)]
           [] item.type = "back" ->
                IF Len(a0.menu_stack) > 1
                THEN LET popped == Pop(a0.menu_stack) IN
                     [a0 EXCEPT !.menu_stack = popped,
                                !.menus[Top(popped)] = Menu_ensure_visible(@)]
                ELSE ToIdle(a0, now)
           [] item.type = "state" ->
                [a0 EXCEPT !.current_state = item.state,
                           !.state_entered_at = now,
                           !.menu_last_interaction = now]
           [] item.type = "toggle" -> toggle_rain_mode(a0)
           [] item.type = "minigame" ->
                [a0 EXCEPT !.pending_minigame = item.module,
                           !.minigame_return_menu_stack = PreserveStack(a0),
                           !.current_state = STATE_MINIGAME,
                           !.state_entered_at = now]
           [] OTHER -> ActionItem(a0, now, item)

\* lines 952 and 968: time.ticks_diff(now, menu_last_interaction) >= MENU_IDLE_TIMEOUT_MS
IdleNeverTimesOut(now, last) == FALSE
IdleTimedOutStrictly(now, last) == ticks_diff(now, last) > MENU_IDLE_TIMEOUT_MS
IdleTimedOut(now, last) == ticks_diff(now, last) >= MENU_IDLE_TIMEOUT_MS

\* lines 895-955: STATE_MENU
MenuBranchClickFirst(a, now, delta, clicked) ==
    LET a1 == IF a.menu_stack = << >> THEN OpenRoot(a) ELSE a
        current_menu == Top(a1.menu_stack)
        a2 == IF clicked THEN MenuClick(a1, now, current_menu) ELSE a1
        a3 == IF delta # 0
              THEN [a2 EXCEPT !.menus[current_menu] = Menu_move(@, delta),
                              !.menu_last_interaction = now]
              ELSE a2
    IN  IF /\ a3.current_state = STATE_MENU
           /\ IdleTimedOut(now, a3.menu_last_interaction)
        THEN ToIdle(a3, now)
        ELSE a3
MenuBranch(a, now, delta, clicked) ==
    LET a1 == IF a.menu_stack = << >> THEN OpenRoot(a) ELSE a
        current_menu == Top(a1.menu_stack)
        a2 == IF delta # 0
              THEN [a1 EXCEPT !.menus[current_menu] = Menu_move(@, delta),
                              !.menu_last_interaction = now]
              ELSE a1
        a3 == IF clicked THEN MenuClick(a2, now, current_menu) ELSE a2
    IN  IF /\ a3.current_state = STATE_MENU
           /\ IdleTimedOut(now, a3.menu_last_interaction)
        THEN ToIdle(a3, now)
        ELSE a3

\* line 962: menu_last_interaction = now
StatsClickKeepsClock(a, now) == a.menu_last_interaction
StatsClickRestartsClock(a, now) == now

\* lines 957-971: STATE_STATS
StatsBranch(a, now, delta, clicked) ==
    LET a1 == IF clicked
              THEN IF a.menu_stack # << >>
                   THEN [a EXCEPT !.current_state = STATE_MENU,
                                  !.menu_last_interaction = StatsClickRestartsClock(a, now),
                                  !.state_entered_at = now]
                   ELSE [a EXCEPT !.current_state = STATE_IDLE,
                                  !.state_entered_at = now]
              ELSE IF delta # 0 THEN [a EXCEPT !.menu_last_interaction = now] ELSE a
    IN  IF IdleTimedOut(now, a1.menu_last_interaction)
        THEN ToIdle(a1, now)
        ELSE a1

\* line 974: expired = time.ticks_diff(now, state_entered_at) >= ACTION_VIEW_DURATION_MS
MessageExpiredLate(now, entered) == ticks_diff(now, entered) > ACTION_VIEW_DURATION_MS
MessageExpired(now, entered) == ticks_diff(now, entered) >= ACTION_VIEW_DURATION_MS

\* lines 973-988: STATE_MESSAGE
MessageBranch(a, now, clicked) ==
    LET expired == MessageExpired(now, a.state_entered_at) IN
    IF clicked \/ expired
    THEN LET a1 == IF a.message_return_state = STATE_MENU /\ a.menu_after_message # << >>
                   THEN [a EXCEPT !.menu_stack = a.menu_after_message,
                                  !.current_state = STATE_MENU,
                                  !.menu_last_interaction = now]
                   ELSE [a EXCEPT !.menu_stack = << >>,
                                  !.current_state = STATE_IDLE]
         IN  [a1 EXCEPT !.state_entered_at = now,
                        !.message_text = "",
                        !.message_subtext = None,
                        !.menu_after_message = << >>]
    ELSE a

\* run_minigame(module, encoder), lines 739-767: the banner pauses, the game's
\* own loop (an exception it raises, fault "main_loop", is caught at lines
\* 753-756), the encoder resets; took is the time all of it takes
run_minigame(a, module, took) == [a EXCEPT !.clock = @ + took]

\* lines 881-882: state_entered_at = time.ticks_ms(), read after the game
\* returned (before is the pass at line 840, after is at line 881)
MessageClockAtLaunch(before, after) == before.clock
MessageClock(before, after) == after.clock

\* lines 870-871: module = pending_minigame; pending_minigame = None
TakePendingLeavingIt(a) == a
TakePending(a) == [a EXCEPT !.pending_minigame = None]

\* lines 869-883: a pending minigame is run, then the play side effect, then Message
MinigameBranchPlayingTwice(a, took) ==
    LET module == a.pending_minigame
        menu_preserved == a.minigame_return_menu_stack
        a1 == run_minigame(TakePending(a), module, took)
        a2 == handle_play_action(handle_play_action(a1))
    IN  [a2 EXCEPT !.menu_stack = menu_preserved,
                   !.menu_after_message = menu_preserved,
                   !.message_text = GameName(module),
                   !.message_subtext = "Great game!",
                   !.message_return_state =
                       IF menu_preserved # << >> THEN STATE_MENU ELSE STATE_IDLE,
                   !.current_state = STATE_MESSAGE,
                   !.state_entered_at = MessageClock(a, a2),
                   !.menu_last_interaction = MessageClock(a, a2)]
MinigameBranch(a, took) ==
    LET module == a.pending_minigame
        menu_preserved == a.minigame_return_menu_stack
        a1 == run_minigame(TakePending(a), module, took)
        a2 == handle_play_action(a1)
    IN  IF a.fault = "play"
        THEN [a1 EXCEPT !.crashed = TRUE]      \* handle_play_action() at line 874 is in no try block
        ELSE
        [a2 EXCEPT !.menu_stack = menu_preserved,
                   !.menu_after_message = menu_preserved,
                   !.message_text = GameName(module),
                   !.message_subtext = "Great game!",
                   !.message_return_state =
                       IF menu_preserved # << >> THEN STATE_MENU ELSE STATE_IDLE,
                   !.current_state = STATE_MESSAGE,
                   !.state_entered_at = MessageClock(a, a2),
                   !.menu_last_interaction = MessageClock(a, a2)]

\* line 990: the render gate
RenderDue(a, now) == ticks_diff(now, a.last_render) >= RENDER_INTERVAL_MS

\* lines 990-1001: drawing a menu calls ensure_visible on it
Render(a, now) ==
    IF RenderDue(a, now)
    THEN LET a1 == IF a.current_state = STATE_MENU
                   THEN LET current_menu ==
                                IF a.menu_stack # << >> THEN Top(a.menu_stack) ELSE "main"
                        IN  [a EXCEPT !.menus[current_menu] = Menu_ensure_visible(@)]
                   ELSE a
         IN  [a1 EXCEPT !.last_render = now]
    ELSE a

\* line 869: the minigame branch ends with "continue": the pass does not render
Continues(a) == a.current_state = STATE_MINIGAME /\ a.pending_minigame # None

\* lines 869-988: the state-transition logic, after the ticks; the branches
\* of lines 885-988 are one if/elif chain
StateLogicFallingThrough(a, now, delta, clicked, took) ==
    IF Continues(a)
    THEN MinigameBranch(a, took)
    ELSE LET a1 == IF a.current_state = STATE_IDLE THEN IdleBranch(a, now, clicked) ELSE a
             a2 == IF a1.current_state = STATE_MESSAGE
                   THEN MessageBranch(a1, now, clicked) ELSE a1
             a3 == IF a2.current_state = STATE_STATS
                   THEN StatsBranch(a2, now, delta, clicked) ELSE a2
         IN  IF a3.current_state = STATE_MENU
             THEN MenuBranch(a3, now, delta, clicked) ELSE a3
StateLogic(a, now, delta, clicked, took) ==
    IF Continues(a)
    THEN MinigameBranch(a, took)
    ELSE CASE a.current_state = STATE_IDLE -> IdleBranch(a, now, clicked)
           [] a.current_state = STATE_MENU -> MenuBranch(a, now, delta, clicked)
           [] a.current_state = STATE_STATS -> StatsBranch(a, now, delta, clicked)
           [] a.current_state = STATE_MESSAGE -> MessageBranch(a, now, clicked)
           [] OTHER -> a

\* one pass of the loop: now is read (line 840), then encoder.read() (line 841)
\* returns (delta, clicked); took is used only when a minigame runs
LoopPass(a, now, delta, clicked, roll, took) ==
    LET a0 == BackgroundTicks([a EXCEPT !.clock = now], now, roll)
        a1 == StateLogic(a0, now, delta, clicked, took)
    IN  IF Continues(a0) \/ a1.rebooted \/ a1.crashed THEN a1 ELSE Render(a1, now)

----------------------------------------------------------------------------
(* SpecApp: the main loop.  Each action is one whole pass of the loop,     *)
(* taken in the state named; its inputs are the time elapsed since the     *)
(* previous pass and the (delta, clicked) pair returned by encoder.read(). *)

\* the timer advances in steps of the message view duration (d = 0: less than one step)
AppTick == ACTION_VIEW_DURATION_MS
\* number of such advances before the timer stops (SpecApp)
MaxAppTicks == 2
\* handlers (feed, doctor, play) run at most this many times per boot
MaxHandlerCalls == 1
\* time a minigame takes from launch to return
GameTimes == {AppTick}

ReadDeltas == {-1, 0, 1}

\* connect_wifi() at boot
WifiOutcomes == {TRUE}

IterInitial ==
    [state |-> "boot", delta |-> 0, clicked |-> FALSE, root_index |-> 0, early |-> FALSE,
     left_depth |-> 0,
     from_kind |-> "none", from_stack |-> << >>, handler_calls |-> 0,
     game_failed |-> FALSE, stats_before |-> << >>, mood_before |-> "",
     depth_before |-> 0, top_before |-> None, top_index_before |-> 0]

AppInit ==
    /\ \E w \in WifiOutcomes : app = AppInitial(0, w)
    /\ iter = IterInitial

\* history of the pass that takes a to r: the state it started in, what read()
\* returned (delta where the branch looks at it), for a pass from Idle the
\* root menu's selection before it, for a pass from Message whether the view
\* duration had not yet elapsed; and, kept until the next launch, how and with
\* which navigation stack the last action or minigame was launched; for a pass
\* from Menu or Stats to Idle, the depth of the stack it started with; for a
\* pass that ran a minigame, whether its main_loop raised, and the gauges and
\* the mood before the pass; the depth and the top of the stack before the
\* pass, and the selection that the menu on top after the pass had before it
IterAfter(a, r, now, delta, clicked) ==
    IF r.rebooted THEN IterInitial        \* machine.reset(): nothing is kept
    ELSE
    [ state |-> a.current_state,
      delta |-> IF a.current_state \in {STATE_MENU, STATE_STATS} THEN delta ELSE 0,
      clicked |-> clicked,
      root_index |-> IF a.current_state = STATE_IDLE THEN a.menus["main"].index ELSE 0,
      early |-> /\ a.current_state = STATE_MESSAGE
                /\ ticks_diff(now, a.state_entered_at) < ACTION_VIEW_DURATION_MS,
      left_depth |-> IF /\ a.current_state \in {STATE_MENU, STATE_STATS}
                        /\ r.current_state = STATE_IDLE
                     THEN Len(a.menu_stack) ELSE 0,
      from_kind |->
          IF a.current_state = STATE_MENU /\ r.current_state = STATE_MESSAGE THEN "action"
          ELSE IF a.current_state = STATE_MENU /\ r.current_state = STATE_MINIGAME THEN "minigame"
          ELSE iter.from_kind,
      from_stack |->
          IF a.current_state = STATE_MENU /\ r.current_state \in {STATE_MESSAGE, STATE_MINIGAME}
          THEN a.menu_stack
          ELSE iter.from_stack,
      handler_calls |->
          IF \/ a.current_state = STATE_MENU /\ r.current_state = STATE_MESSAGE
             \/ a.current_state = STATE_MINIGAME
          THEN iter.handler_calls + 1
          ELSE iter.handler_calls,
      game_failed |-> a.current_state = STATE_MINIGAME /\ a.fault = "main_loop",
      stats_before |-> IF a.current_state = STATE_MINIGAME THEN a.stats_values ELSE << >>,
      mood_before |-> IF a.current_state = STATE_MINIGAME THEN a.current_mood ELSE "",
      depth_before |-> Len(a.menu_stack),
      top_before |-> IF a.menu_stack # << >> THEN Top(a.menu_stack) ELSE None,
      top_index_before |->
          IF r.menu_stack # << >> THEN a.menus[Top(r.menu_stack)].index ELSE 0 ]

\* the variables a pass leaves: the fault drawn for it is spent unless it ended main()
Settled(out) == IF out.crashed THEN out ELSE [out EXCEPT !.fault = "none"]

\* the pass has left r: the next pass starts from it, or from boot after machine.reset()
PassEnds(a, r, now, delta, clicked) ==
    /\ r.clock <= MaxAppTicks * AppTick
    /\ iter' = IterAfter(a, r, now, delta, clicked)
    /\ iter'.handler_calls <= MaxHandlerCalls
    /\ IF r.rebooted
       THEN /\ ticks_ms' = 0
            /\ \E w \in WifiOutcomes : app' = AppInitial(0, w)
       ELSE /\ ticks_ms' = r.clock
            /\ app' = r

\* one iteration started in the given state; faults: the calls that may raise
PassWith(state, deltas, clicks, faults) ==
    /\ app.current_state = state
    /\ ~app.crashed
    /\ \E d \in {0, AppTick}, delta \in deltas, clicked \in clicks, fault \in faults :
          LET now == ticks_ms + d IN
          /\ now <= MaxAppTicks * AppTick
          /\ \E roll \in MoodRolls(app, now),
                took \in (IF state = STATE_MINIGAME THEN GameTimes ELSE {0}) :
                PassEnds([app EXCEPT !.fault = fault],
                         Settled(LoopPass([app EXCEPT !.fault = fault], now, delta,
                                          clicked, roll, took)),
                         now, delta, clicked)
    /\ UNCHANGED << pin_a, pin_b, button, last_encoded, last_button, last_step_time,
                    last_button_time, button_press_time, lock, rotation_delta,
                    button_clicked, sampler, consumer, outstanding, clicksPending,
                    pressAccepted, clicksDue, sinceRead, drift, allAdjacent >>
    /\ UNCHANGED menuVars

\* an iteration in which no call raises
Pass(state, deltas, clicks) == PassWith(state, deltas, clicks, {"none"})

PassIdle == Pass(STATE_IDLE, ReadDeltas, BOOLEAN)
PassMenu == Pass(STATE_MENU, ReadDeltas, BOOLEAN)
PassStats == Pass(STATE_STATS, ReadDeltas, BOOLEAN)
PassMessage == Pass(STATE_MESSAGE, ReadDeltas, BOOLEAN)
PassMinigame == Pass(STATE_MINIGAME, ReadDeltas, BOOLEAN)

NextApp == PassIdle \/ PassMenu \/ PassStats \/ PassMessage \/ PassMinigame

----------------------------------------------------------------------------
(* SpecAppFaults: the main loop when the calls it makes may raise: an      *)
(* action item's handler, a minigame's main_loop, the play side effect     *)
(* after a game.                                                           *)

F_PassIdle == PassWith(STATE_IDLE, ReadDeltas, BOOLEAN, {"none"})
F_PassMenu == PassWith(STATE_MENU, ReadDeltas, BOOLEAN, {"none", "handler"})
F_PassStats == PassWith(STATE_STATS, ReadDeltas, BOOLEAN, {"none"})
F_PassMessage == PassWith(STATE_MESSAGE, ReadDeltas, BOOLEAN, {"none"})
F_PassMinigame == PassWith(STATE_MINIGAME, ReadDeltas, BOOLEAN, {"none", "main_loop", "play"})

NextAppFaults == F_PassIdle \/ F_PassMenu \/ F_PassStats \/ F_PassMessage \/ F_PassMinigame

----------------------------------------------------------------------------
(* SpecStats: the stat gauges under any sequence of the three handlers     *)
(* that change them and of decay ticks.  Here iter records the last        *)
(* operation, how many ran, and the gauges before it.                      *)

\* operations on the gauges per run
MaxStatOps == 9

StatsInit ==
    /\ app = AppInitial(0, TRUE)
    /\ iter = [op |-> "boot", ops |-> 0, before |-> AppInitial(0, TRUE).stats_values]

StatsOp(name, after) ==
    /\ iter.ops < MaxStatOps
    /\ app' = after
    /\ iter' = [op |-> name, ops |-> iter.ops + 1, before |-> app.stats_values]
    /\ UNCHANGED << encVars, menuVars >>

St_Feed == StatsOp("feed", handle_feed_action(app))
St_Play == StatsOp("play", handle_play_action(app))
St_Doctor == StatsOp("doctor", handle_doctor_action(app))
\* lines 861-863: decay_stats(STAT_DECAY_AMOUNT)
St_Decay == StatsOp("decay", decay_stats(app, STAT_DECAY_AMOUNT))

NextStats == St_Feed \/ St_Play \/ St_Doctor \/ St_Decay

----------------------------------------------------------------------------
(* SpecStep: one iteration of the main loop from any navigation context.   *)
(* The menu tree of build_menu_structure never puts a back item at the     *)
(* bottom of the stack and never shows Stats or a Message over an empty    *)
(* stack, yet the loop has a branch for each of these; here the iteration  *)
(* is applied to every stack of distinct menus up to a depth, the empty    *)
(* one included.  iter records the context and the inputs.                 *)

\* deepest navigation stack drawn
MaxNavDepth == 3

MenuNames == DOMAIN build_menu_structure

\* every stack of distinct menus of the given depth
StacksOfDepth(n) ==
    { st \in [1..n -> MenuNames] : \A i \in 1..n, j \in 1..n : i # j => st[i] # st[j] }

NavStacks == UNION { StacksOfDepth(n) : n \in 0..MaxNavDepth }

\* the menus when stack is the navigation stack: each menu on it has the one
\* below it as parent (line 915), the top one has idx selected, the others
\* were left with item v selected
MenusInContext(stack, idx, v) ==
    [ m \in MenuNames |->
        LET base == build_menu_structure[m]
            below == { i \in 2..Len(stack) : stack[i] = m }
            linked == IF below = {} THEN base
                      ELSE Menu_set_parent(base, stack[(CHOOSE i \in below : TRUE) - 1])
            want == IF stack # << >> /\ m = Top(stack) THEN idx ELSE v
        IN  Menu_ensure_visible([linked EXCEPT !.index = Min(want, Len(base.items) - 1)]) ]

\* main()'s variables in state st over the stack, all timers at 0
Context(st, stack, idx, v) ==
    [ AppInitial(0, TRUE) EXCEPT
        !.menus = MenusInContext(stack, idx, v),
        !.current_state = st,
        !.menu_stack = stack,
        !.menu_after_message = IF st = STATE_MESSAGE THEN stack ELSE << >>,
        !.message_text = IF st = STATE_MESSAGE THEN "Feeding" ELSE "",
        !.message_subtext = IF st = STATE_MESSAGE THEN "Yum!" ELSE None,
        !.message_return_state =
            IF st = STATE_MESSAGE /\ stack # << >> THEN STATE_MENU ELSE STATE_IDLE ]

StepInit ==
    /\ \E st \in {STATE_MENU, STATE_STATS, STATE_MESSAGE}, stack \in NavStacks,
          idx \in 0..3, v \in 0..1 :
          /\ (st = STATE_MENU => stack # << >>)
          /\ (stack # << >> => idx < Len(build_menu_structure[Top(stack)].items))
          /\ (stack = << >> => idx = 0)
          /\ app = Context(st, stack, idx, v)
    /\ iter = [phase |-> "context", before |-> app, now |-> 0, delta |-> 0,
               clicked |-> FALSE]

\* the times at which the iteration runs: at once, after the message view
\* duration, after the idle timeout
StepTimes == {0, ACTION_VIEW_DURATION_MS, MENU_IDLE_TIMEOUT_MS}

StepFrom(state) ==
    /\ iter.phase = "context"
    /\ app.current_state = state
    /\ \E now \in StepTimes, delta \in ReadDeltas, clicked \in BOOLEAN :
          /\ app' = LoopPass(app, now, delta, clicked, "skip", 0)
          /\ iter' = [phase |-> "done", before |-> app, now |-> now, delta |-> delta,
                      clicked |-> clicked]
    /\ UNCHANGED << encVars, menuVars >>

Step_Menu == StepFrom(STATE_MENU)
Step_Stats == StepFrom(STATE_STATS)
Step_Message == StepFrom(STATE_MESSAGE)

NextStep == Step_Menu \/ Step_Stats \/ Step_Message

\* in SpecStep: the menu on top before the iteration, as the iteration's
\* move (lines 901-903) left it, and the item the click then acted on
StepTopBefore == Top(iter.before.menu_stack)
StepMenuClicked == Menu_move(iter.before.menus[StepTopBefore], iter.delta)
StepItemClicked == Menu_selected(StepMenuClicked)
StepClickOn(type) ==
    /\ iter.phase = "done"
    /\ iter.before.current_state = STATE_MENU
    /\ iter.clicked
    /\ StepItemClicked.type = type

----------------------------------------------------------------------------
(* SpecIter: the main loop statement by statement.  One action per part of *)
(* the loop body, taken in the order of the source; iter holds the         *)
(* position in the body, what line 840-841 read, the parts executed so far *)
(* in this pass and main()'s variables at its start.                       *)

\* passes of the loop in one behaviour
MaxIterPasses == 2

\* the parts of the loop body, in the order the claim of a fixed order gives
PhaseOrder ==
    << "read", "sensor", "mood", "weather", "decay", "animation", "logic", "render" >>

\* the part of the body that follows part p in the source (lines 840-1001);
\* after the last one the loop starts over
PhaseAfterRenderBeforeLogic(p) ==
    CASE p = "read" -> "sensor"
      [] p = "sensor" -> "mood"
      [] p = "mood" -> "weather"
      [] p = "weather" -> "decay"
      [] p = "decay" -> "animation"
      [] p = "animation" -> "render"
      [] p = "render" -> "logic"
      [] p = "logic" -> "read"
PhaseAfter(p) ==
    CASE p = "read" -> "sensor"         \* lines 840-841, then 849
      [] p = "sensor" -> "mood"         \* 849-851, then 853
      [] p = "mood" -> "weather"        \* 853-855, then 857
      [] p = "weather" -> "decay"       \* 857-859, then 861
      [] p = "decay" -> "animation"     \* 861-863, then 865
      [] p = "animation" -> "logic"     \* 865-867, then 869
      [] p = "logic" -> "render"        \* 869-988, then 990
      [] p = "render" -> "read"         \* 990-1001, then 839

\* the navigation stacks the menu tree can produce
TreeStacks ==
    { << "main" >>, << "main", "pet" >>, << "main", "settings" >>,
      << "main", "pet", "minigames" >> }

\* the time a pass starts after the previous one: at once, after the message
\* view duration, after the longest of the tick intervals
IterSteps == {0, ACTION_VIEW_DURATION_MS, WEATHER_UPDATE_INTERVAL}
IterDeltas == {0, 1}
IterRolls(a, now) == MoodRolls(a, now) \cap {"skip", "sad"}

IterAtTop(passes) ==
    [phase |-> "read", now |-> 0, delta |-> 0, clicked |-> FALSE, roll |-> "skip",
     took |-> 0, trace |-> << >>, start |-> app, passes |-> passes]

\* gauges at the start: as at boot, or near their limits
StatsSamples ==
    { AppInitial(0, TRUE).stats_values, [Energy |-> 5, Hunger |-> 3, Health |-> 95] }

IterInit ==
    /\ \/ app = AppInitial(0, TRUE)
       \/ \E stack \in TreeStacks, idx \in 0..3 :
             /\ idx < Len(build_menu_structure[Top(stack)].items)
             /\ app = Context(STATE_MENU, stack, idx, 0)
       \/ \E idx \in 0..2, stats \in StatsSamples :
             app = [Context(STATE_MENU, << "main", "pet", "minigames" >>, idx, 0)
                      EXCEPT !.stats_values = stats]
       \/ \E st \in {STATE_STATS, STATE_MESSAGE}, stack \in TreeStacks :
             app = Context(st, stack, 0, 0)
    /\ iter = IterAtTop(0)

\* lines 840-841: now = time.ticks_ms(); delta, clicked = encoder.read()
It_Read ==
    /\ iter.phase = "read"
    /\ iter.passes < MaxIterPasses
    /\ ~app.crashed
    /\ \E d \in IterSteps, delta \in IterDeltas, clicked \in BOOLEAN :
          LET now == app.clock + d IN
          \E roll \in IterRolls(app, now),
             took \in (IF Continues(app) THEN GameTimes ELSE {0}) :
             /\ app' = [app EXCEPT !.clock = now]
             /\ iter' = [phase |-> PhaseAfter("read"), now |-> now, delta |-> delta,
                         clicked |-> clicked, roll |-> roll, took |-> took,
                         trace |-> << "read" >>, start |-> app,
                         passes |-> iter.passes + 1]
    /\ UNCHANGED << encVars, menuVars >>

\* one periodic tick: its test and, when due, its work
It_Tick(p, after) ==
    /\ iter.phase = p
    /\ app' = after
    /\ iter' = [iter EXCEPT !.phase = PhaseAfter(p), !.trace = Append(@, p)]
    /\ UNCHANGED << encVars, menuVars >>

It_Sensor == It_Tick("sensor", SensorTick(app, iter.now))
It_Mood == It_Tick("mood", MoodTick(app, iter.now, iter.roll))
It_Weather == It_Tick("weather", WeatherTick(app, iter.now))
It_Decay == It_Tick("decay", DecayTick(app, iter.now))
It_Animation == It_Tick("animation", AnimationTick(app, iter.now))

\* lines 869-988; after the minigame branch the loop continues at line 839,
\* after machine.reset() the program starts again
It_Logic ==
    /\ iter.phase = "logic"
    /\ LET r == StateLogic(app, iter.now, iter.delta, iter.clicked, iter.took) IN
       IF r.rebooted
       THEN /\ app' = AppInitial(0, TRUE)
            /\ iter' = [IterAtTop(iter.passes) EXCEPT !.start = AppInitial(0, TRUE)]
       ELSE /\ app' = r
            /\ iter' = [iter EXCEPT
                          !.phase = IF Continues(app) THEN "read" ELSE PhaseAfter("logic"),
                          !.trace = Append(@, "logic")]
    /\ UNCHANGED << encVars, menuVars >>

\* lines 990-1001: the gate and, when it is open, the drawing
It_Render ==
    /\ iter.phase = "render"
    /\ app' = Render(app, iter.now)
    /\ iter' = [iter EXCEPT !.phase = PhaseAfter("render"),
                            !.trace = IF RenderDue(app, iter.now)
                                      THEN Append(@, "render") ELSE @]
    /\ UNCHANGED << encVars, menuVars >>

NextIter ==
    \/ It_Read \/ It_Sensor \/ It_Mood \/ It_Weather \/ It_Decay \/ It_Animation
    \/ It_Logic \/ It_Render

----------------------------------------------------------------------------
(* SpecQuiet: the main loop left alone.  Every pass reads (0, False) from  *)
(* the encoder and starts a positive time after the previous one: the view *)
(* duration while a message is up or a game is pending, the decay interval *)
(* otherwise.  The loop only                                               *)
(* ever compares times through ticks_diff, so the timestamps are kept      *)
(* relative to the clock of the last pass, and a timestamp older than the  *)
(* longest interval is kept as that interval.  iter keeps the state and    *)
(* the stack depth the run started with.                                   *)

QuietStep == ACTION_VIEW_DURATION_MS
QuietSteps(a) ==
    IF a.current_state \in {STATE_MESSAGE, STATE_MINIGAME}
    THEN {QuietStep} ELSE {STAT_DECAY_INTERVAL_MS}
LongestInterval == WEATHER_UPDATE_INTERVAL

Since(t, clock) == Max(t - clock, -LongestInterval)

\* the same variables with the clock of the last pass as time 0
Rebased(a) ==
    [a EXCEPT !.clock = 0,
              !.last_frame_sw = Since(@, a.clock),
              !.last_mood_change = Since(@, a.clock),
              !.last_weather_update = Since(@, a.clock),
              !.last_render = Since(@, a.clock),
              !.last_sensor_update = Since(@, a.clock),
              !.last_stat_decay = Since(@, a.clock),
              !.state_entered_at = Since(@, a.clock),
              !.menu_last_interaction = Since(@, a.clock)]

\* gauges after a long time without care
QuietStats == [Energy |-> 2, Hunger |-> 1, Health |-> 0]

QuietContext(st, stack, idx) ==
    [Context(st, stack, idx, 0) EXCEPT !.stats_values = QuietStats]

\* a minigame was launched from the minigames menu: the pass of the click
Launched(idx) ==
    LoopPass(QuietContext(STATE_MENU, << "main", "pet", "minigames" >>, idx),
             0, 0, TRUE, "skip", 0)

QuietInit ==
    /\ \/ app = AppInitial(0, TRUE)
       \/ \E st \in {STATE_MENU, STATE_STATS, STATE_MESSAGE}, stack \in TreeStacks,
             idx \in 0..3 :
             /\ idx < Len(build_menu_structure[Top(stack)].items)
             /\ app = QuietContext(st, stack, idx)
       \/ \E idx \in 0..2 : app = Launched(idx)
    /\ iter = [state |-> app.current_state, depth |-> Len(app.menu_stack)]

QuietPass(state) ==
    /\ app.current_state = state
    /\ ~app.crashed
    /\ \E now \in QuietSteps(app) :
       \E roll \in IterRolls(app, now),
          took \in (IF state = STATE_MINIGAME THEN GameTimes ELSE {0}) :
          \E r \in {LoopPass(app, now, 0, FALSE, roll, took)} : app' = Rebased(r)
    /\ UNCHANGED << encVars, menuVars, iter >>

Q_Idle == QuietPass(STATE_IDLE)
Q_Menu == QuietPass(STATE_MENU)
Q_Stats == QuietPass(STATE_STATS)
Q_Message == QuietPass(STATE_MESSAGE)
Q_Minigame == QuietPass(STATE_MINIGAME)

NextQuiet == Q_Idle \/ Q_Menu \/ Q_Stats \/ Q_Message \/ Q_Minigame

----------------------------------------------------------------------------
(* SpecGames: one call of run_minigame(): a minigame's main_loop from      *)
(* entry to the return of control.  iter holds the game's locals and the   *)
(* decoder's delta cap; elapsed is the timer counted from the game's last  *)
(* "start = time.ticks_ms()".  What the decoder returns to a read(), the   *)
(* button level and an exception raised by a display call are inputs.  Of  *)
(* a step timestamp of the spin game only this is kept: whether it has     *)
(* left the rolling window ("old") or not ("fresh").                       *)

\* minigame_a.py
REACTION_ROUNDS == 5
REACTION_TIMEOUT_MS == 5000
REACTION_POLL_MS == 5
\* minigame_b.py
TIMING_AUTO_STOP_MS == 15000
TIMING_POLL_MS == 10
\* minigame_c.py
GAME_DURATION_MS == 6000
WINDOW_MS == 1000
FRAME_DELAY_MS == 20
BURST_CAP == 1000
\* getattr(encoder, "_delta_cap", None) when the decoder has no such attribute
NoCap == -1
\* delta_cap=1, main.py line 44
DEFAULT_DELTA_CAP == 1

\* steps the knob makes between two read() calls of the spin game
MaxSpinBurst == 2
\* steps the spin game registers in all
MaxSpinSteps == 2

\* time.sleep_ms(n) and the display calls around it take n ms or more
SleepOverrun == {0, WINDOW_MS}
SleptNoTime(t, n) == t
Slept(t, n) == t + n

\* the decoder main() constructs at line 811: rotary_encoder.RotaryEncoder, or
\* the adapter of main.py lines 36-116 when USE_HARDWARE_ENCODER is set
DecoderKinds == {"polling", "hardware"}

\* main.py lines 96-99: the adapter's read() clamps to +-self._delta_cap
CapDeltaTo(delta, cap) == IF delta > cap THEN cap ELSE IF delta < -cap THEN -cap ELSE delta

\* what read() returns when steps have accumulated since the previous read()
DecoderRead(kind, cap, steps) ==
    IF kind = "hardware" THEN CapDeltaTo(steps, cap) ELSE CapDelta(steps)

\* minigame_c.py line 32: encoder._delta_cap = 1000
RaisedCapUnraised(original_cap) == original_cap
RaisedCap(original_cap) == IF original_cap # NoCap THEN BURST_CAP ELSE original_cap

GameStart(game, kind) ==
    [ game |-> game,
      kind |-> kind,
      delta_cap |-> IF kind = "hardware" THEN DEFAULT_DELTA_CAP ELSE NoCap,
      cap_before |-> IF kind = "hardware" THEN DEFAULT_DELTA_CAP ELSE NoCap,
      pc |-> "enter",
      round |-> 1,
      elapsed |-> 0,
      original_cap |-> NoCap,
      timestamps |-> << >>,
      total_steps |-> 0,
      read |-> [steps |-> 0, delta |-> 0],     \* the last read() of the spin loop
      clicks |-> 0,                            \* clicks and presses the game has seen
      raised |-> FALSE ]                       \* main_loop ended by an exception

GamesInit ==
    /\ app = AppInitial(0, FALSE)
    /\ \E game \in {"minigame_a", "minigame_b", "minigame_c"}, kind \in DecoderKinds :
          iter = GameStart(game, kind)

GameStep(g) ==
    /\ iter' = g
    /\ UNCHANGED << encVars, menuVars, app >>

\* minigame_a.py lines 21-55: reset, "Get Ready", the random wait, the flash,
\* start_time = time.ticks_ms()
A_Ready ==
    /\ iter.game = "minigame_a"
    /\ iter.pc \in {"enter", "a_ready"}
    /\ GameStep([iter EXCEPT !.pc = "a_poll", !.elapsed = 0])

ReactionNeverTimesOut(elapsed) == FALSE
ReactionTimedOut(elapsed) == elapsed > REACTION_TIMEOUT_MS

\* minigame_a.py lines 61-76: one pass of "while not button_pressed"
A_Poll ==
    /\ iter.game = "minigame_a"
    /\ iter.pc = "a_poll"
    /\ IF ReactionTimedOut(iter.elapsed)
       THEN GameStep([iter EXCEPT !.pc = "a_result"])
       ELSE \E clicked \in BOOLEAN, over \in SleepOverrun :
               GameStep([iter EXCEPT
                   !.elapsed = Slept(@, REACTION_POLL_MS + over),
                   !.clicks = IF clicked THEN 1 ELSE @,
                   !.pc = IF clicked THEN "a_result" ELSE "a_poll"])

\* minigame_a.py lines 78-97, then the next round or lines 99-124
A_Result ==
    /\ iter.game = "minigame_a"
    /\ iter.pc = "a_result"
    /\ IF iter.round < REACTION_ROUNDS
       THEN GameStep([iter EXCEPT !.round = @ + 1, !.pc = "a_ready"])
       ELSE GameStep([iter EXCEPT !.pc = "returned"])

\* minigame_b.py lines 21-51
B_Intro ==
    /\ iter.game = "minigame_b"
    /\ iter.pc = "enter"
    /\ GameStep([iter EXCEPT !.pc = "b_poll", !.elapsed = 0])

\* minigame_b.py lines 54-90: one pass of "while not button_pressed"
B_Poll ==
    /\ iter.game = "minigame_b"
    /\ iter.pc = "b_poll"
    /\ IF iter.elapsed > TIMING_AUTO_STOP_MS
       THEN GameStep([iter EXCEPT !.pc = "b_score"])
       ELSE \E level \in {0, 1}, over \in SleepOverrun :
               GameStep([iter EXCEPT
                   !.elapsed = Slept(@, TIMING_POLL_MS + over),
                   !.clicks = IF level = 0 THEN 1 ELSE @,
                   !.pc = IF level = 0 THEN "b_score" ELSE "b_poll"])

\* minigame_b.py lines 92-139
B_Score ==
    /\ iter.game = "minigame_b"
    /\ iter.pc = "b_score"
    /\ GameStep([iter EXCEPT !.pc = "returned"])

\* minigame_c.py lines 21-50: reset, the cap is lifted, the intro, start_ms
C_Prepare ==
    /\ iter.game = "minigame_c"
    /\ iter.pc = "enter"
    /\ GameStep([iter EXCEPT !.original_cap = iter.delta_cap,
                             !.delta_cap = RaisedCap(iter.delta_cap),
                             !.elapsed = 0,
                             !.pc = "c_poll"])

\* minigame_c.py lines 55-72: the duration test, encoder.read(), the early end
C_Poll ==
    /\ iter.game = "minigame_c"
    /\ iter.pc = "c_poll"
    /\ IF iter.elapsed >= GAME_DURATION_MS
       THEN GameStep([iter EXCEPT !.pc = "c_result"])
       ELSE \E steps \in 0..MaxSpinBurst, clicked \in BOOLEAN :
               LET delta == DecoderRead(iter.kind, iter.delta_cap, steps) IN
               /\ iter.total_steps + delta <= MaxSpinSteps
               /\ GameStep([iter EXCEPT
                      !.read = [steps |-> steps, delta |-> delta],
                      !.total_steps = @ + delta,
                      !.timestamps = @ \o [i \in 1..delta |-> "fresh"],
                      !.clicks = IF clicked THEN 1 ELSE @,
                      !.pc = IF clicked THEN "c_result" ELSE "c_prune"])

\* the timestamps after more time has passed: the first k have left the window
Aged(timestamps) ==
    { [i \in 1..Len(timestamps) |-> IF i <= k THEN "old" ELSE timestamps[i]] :
        k \in 0..Len(timestamps) }

\* minigame_c.py lines 75-103: one pass of the pruning loop, or, when it has
\* ended, the display and the sleep
C_Prune ==
    /\ iter.game = "minigame_c"
    /\ iter.pc = "c_prune"
    /\ IF iter.timestamps # << >> /\ Head(iter.timestamps) = "old"
       THEN GameStep([iter EXCEPT !.timestamps = Tail(@)])
       ELSE \E over \in SleepOverrun, aged \in Aged(iter.timestamps) :
               GameStep([iter EXCEPT !.elapsed = Slept(@, FRAME_DELAY_MS + over),
                                     !.timestamps = aged,
                                     !.pc = "c_poll"])

\* minigame_c.py lines 105-113
C_Result ==
    /\ iter.game = "minigame_c"
    /\ iter.pc = "c_result"
    /\ GameStep([iter EXCEPT !.pc = "c_restore"])

\* minigame_c.py lines 115-130
C_Restore ==
    /\ iter.game = "minigame_c"
    /\ iter.pc = "c_restore"
    /\ GameStep([iter EXCEPT
           !.delta_cap = IF iter.original_cap # NoCap THEN iter.original_cap ELSE @,
           !.pc = "returned"])

\* a display call of the game raises (oled.show() on a bus error): main_loop
\* is left at once, run_minigame catches the exception at main.py lines 753-756
G_Raise ==
    /\ iter.pc \notin {"enter", "returned"}
    /\ GameStep([iter EXCEPT !.pc = "returned", !.raised = TRUE])

NextGames ==
    \/ A_Ready \/ A_Poll \/ A_Result
    \/ B_Intro \/ B_Poll \/ B_Score
    \/ C_Prepare \/ C_Poll \/ C_Prune \/ C_Result \/ C_Restore
    \/ G_Raise

----------------------------------------------------------------------------
(* Properties of the decoder (SpecEnc)                                     *)

RotAddSection == {"rot_acquire", "rot_load", "rot_store"}
FlagInt == IF button_clicked THEN 1 ELSE 0

\* C1: the hand-off between sampler and consumer loses and duplicates nothing.
\* Except between the two halves of read()'s take-and-clear, the accumulator
\* holds exactly the steps added and not yet taken by a read() (none lost, none
\* taken twice), and the click flag is up exactly when one click set on a clear
\* flag has not yet been reported by a read().
C1_HandOffExact ==
    consumer.pc # "clear" =>
        /\ rotation_delta = outstanding
        /\ clicksPending = FlagInt

\* a read() takes a step and a click while the sampler waits for the lock with
\* another step in hand
C1_Witness ==
    /\ consumer.pc = "release"
    /\ consumer.delta # 0
    /\ consumer.clicked
    /\ sampler.pc = "rot_acquire"

\* C2: drain is exactly-once. A read() that reaches its return with no sampler
\* step since the previous read() returned returns (0, false).
C2_DrainOnce ==
    (consumer.pc = "release" /\ sinceRead # "sampled") => ReadResult = << 0, FALSE >>

\* the second of two back-to-back reads, the first of which returned an event
C2_Witness ==
    /\ consumer.pc = "release"
    /\ sinceRead = "drained"

\* C3: bursts are absorbed, not replayed. When read() is about to return, the
\* value is in {-1, 0, 1} with the sign of the accumulated count it took, the
\* accumulator is 0, and no step added before the take is left for a later read().
C3_BurstAbsorbed ==
    consumer.pc = "release" =>
        /\ ReadResult[1] \in {-1, 0, 1}
        /\ ReadResult[1] = Sign(consumer.delta)
        /\ rotation_delta = 0
        /\ outstanding = 0

\* a read() that took a burst of two or more steps
C3_Witness ==
    /\ consumer.pc = "release"
    /\ Abs(consumer.delta) >= 2

\* C4: two-phase click. A click is reported only for an accepted press followed
\* by an accepted release, and each such cycle is reported once: the number of
\* completed cycles not yet reported never goes negative (no read() reports a
\* click no cycle accounts for), and except between the two halves of read()'s
\* take-and-clear it is the flag plus the cycle the sampler is about to record.
C4_TwoPhaseClick ==
    /\ clicksDue >= 0
    /\ consumer.pc # "clear" =>
          clicksDue = FlagInt + (IF sampler.pc \in {"btn_acquire", "btn_set"} THEN 1 ELSE 0)
    /\ sampler.pc \in {"btn_acquire", "btn_set"} => last_button = 1

\* a read() reports the click of a completed press/release cycle
C4_Witness ==
    /\ consumer.pc = "release"
    /\ consumer.clicked
    /\ clicksDue = 0

\* C5: as long as every accepted transition was between adjacent Gray codes,
\* the steps added to the accumulator equal the positions traversed around the
\* Gray cycle (one decoded step per position), and a sample equal to the stored
\* code never leads to an addition.
C5_StepsEqualPositions ==
    /\ (allAdjacent /\ sampler.pc \notin RotAddSection) => drift = 0
    /\ sampler.pc \in RotAddSection => sampler.current # last_encoded

\* two steps decoded in a row from adjacent transitions only
C5_Witness ==
    /\ allAdjacent
    /\ sampler.pc = "button"
    /\ Abs(rotation_delta) = 2

\* C6: the four both-lines-flip entries of the table are 0, a both-lines-flip
\* sample never reaches the code that adds to the accumulator, and the table
\* index is always one of the 16 entries.
C6_InvalidJumpsNull ==
    /\ \A a \in 0..3, b \in 0..3 : BothLinesFlip(a, b) => Direction(a, b) = 0
    /\ sampler.pc \in RotAddSection \cup {"rot_release"} =>
          ~BothLinesFlip(last_encoded, sampler.current)
    /\ (last_encoded * 4 + Encoded(pin_a, pin_b)) + 1 \in DOMAIN transition_table

\* a both-lines-flip sample was processed and the accumulator holds a step
C6_Witness ==
    /\ ~allAdjacent
    /\ last_encoded = Encoded(pin_a, pin_b)
    /\ rotation_delta # 0
    /\ rotation_delta = outstanding

\* C27: every step of the sampler that processes a changed encoder sample
\* after the step debounce interval stores the new code and stamps the
\* debounce time with the time of the sample: the step that rejects the change
\* as an invalid jump (lines 62-70 and 76) and the step that ends recording an
\* accepted one (lines 73-76).
C27_ChangedSampleRestartsWindow ==
    [][ /\ ( /\ sampler.pc = "rotation"
             /\ sampler'.pc = "button"
             /\ Encoded(pin_a, pin_b) # last_encoded
             /\ DebounceElapsed(ticks_ms, last_step_time, step_debounce_ms) ) =>
               /\ last_encoded' = Encoded(pin_a, pin_b)
               /\ last_step_time' = ticks_ms
        /\ (sampler.pc = "rot_release" /\ sampler'.pc = "button") =>
               /\ last_encoded' = sampler.current
               /\ last_step_time' = sampler.now ]_vars

\* C28: a click is registered only for a press that persisted past debounce:
\* as long as the button line has never stayed low for button_debounce_ms, no
\* click is set, about to be set, or returned by read().
C28_ShortPressNoClick ==
    ~iter.persisted =>
        /\ ~button_clicked
        /\ sampler.pc \notin {"btn_acquire", "btn_set", "btn_release"}
        /\ ~consumer.clicked

\* a changed encoder sample is taken inside the step debounce window
SampleInsideWindow ==
    /\ sampler.pc = "rotation"
    /\ sampler'.pc # "rotation"
    /\ Encoded(pin_a, pin_b) # last_encoded
    /\ ticks_diff(ticks_ms, last_step_time) < step_debounce_ms

\* C39: the transition table is antisymmetric and direction-consistent: for
\* adjacent codes a and b the entry a->b is nonzero and is minus the entry
\* b->a, and transitions in the same rotational direction carry the same
\* sign; hence a walk that only went back and forth between two adjacent
\* codes, every change accepted, has a net count of zero steps whenever it is
\* back on the code it started on.
C39_TableAntisymmetric ==
    /\ \A a \in 0..3, b \in 0..3 :
          Adjacent(a, b) =>
              /\ Direction(a, b) # 0
              /\ Direction(a, b) = -Direction(b, a)
    /\ \A a \in 0..3, b \in 0..3, c \in 0..3, d \in 0..3 :
          (Adjacent(a, b) /\ Adjacent(c, d) /\ Traversed(a, b) = Traversed(c, d)) =>
              Sign(Direction(a, b)) = Sign(Direction(c, d))
    /\ (Cardinality(iter.visited) <= 2 /\ last_encoded = iter.start) =>
          rotation_delta = 0

\* four changes back and forth between two codes, ending on the first
C39_Witness ==
    /\ iter.hops = 4
    /\ Cardinality(iter.visited) = 2
    /\ last_encoded = iter.start
    /\ rotation_delta = 0

\* C30: step debounce: a sample that adds a nonzero step to the accumulator
\* was taken at least step_debounce_ms after the sample of the previous step,
\* and a changed encoder sample seen inside the debounce window changes no
\* decoder state (stored code, timestamp and accumulator are untouched; the
\* sampler goes on to the button), so the same pin levels are evaluated
\* against the old stored code by a later sample.
C30_StepDebounce ==
    /\ [](sampler.pc \in RotAddSection \cup {"rot_release"} =>
             ticks_diff(sampler.now, last_step_time) >= step_debounce_ms)
    /\ [][SampleInsideWindow =>
             /\ UNCHANGED << last_encoded, last_step_time, rotation_delta >>
             /\ sampler'.pc = "button"]_vars

\* a step was recorded in this tick, the pins moved again, and the sampler
\* has passed _read_rotation without taking the new code
C30_Witness ==
    /\ ticks_ms > 0
    /\ last_step_time = ticks_ms
    /\ rotation_delta # 0
    /\ sampler.pc = "button"
    /\ sinceRead = "sampled"
    /\ Encoded(pin_a, pin_b) # last_encoded

\* C29: reset() is race-free against the sampler: a step or click derived from
\* pin levels sampled before reset() began never reaches the accumulator or the
\* click flag after reset() cleared them (so no later read() returns it), and
\* once reset() has returned and the sampler is between two update() calls, a
\* pending-press marker is only set while the stored button code is "pressed".
C29_ResetRaceFree ==
    /\ ~(Stale /\ sampler.pc \in {"rot_release", "btn_release"})
    /\ (sampler.pc = "rotation" /\ consumer.pc \notin ResetSection)
           => (button_press_time # NoTime => last_button = 0)

\* C19: after reset(), until the sampler's next step, the accumulator is 0,
\* the flag false, no press pending and the stored codes are the pin levels
\* reset() read, so that an update() finding the pins unchanged sees no
\* transition; and the clicks registered after a reset are exactly the
\* press/release cycles accepted after it: the release of a button held during
\* reset() registers none.
C19_ResetResyncs ==
    /\ sinceRead \in ResetMarks =>
          /\ rotation_delta = 0
          /\ ~button_clicked
          /\ button_press_time = NoTime
          /\ sinceRead = ResetMark(last_encoded \div 2, last_encoded % 2, last_button)
    /\ sinceRead = ResetMark(pin_a, pin_b, button) =>
          /\ Encoded(pin_a, pin_b) = last_encoded
          /\ button = last_button
    /\ sampler.pc \in RotAddSection => sampler.current # last_encoded
    /\ consumer.pc # "clear" =>
          clicksDue = FlagInt + (IF sampler.pc \in {"btn_acquire", "btn_set"} THEN 1 ELSE 0)

\* reset() ran with the button held after an accepted press, the release was
\* then accepted, and no click is registered
C19_Witness ==
    /\ "was" \in DOMAIN consumer
    /\ consumer.was.held
    /\ consumer.was.pressed
    /\ sampler.pc = "rotation"
    /\ last_button = 1
    /\ button_press_time = NoTime
    /\ ~button_clicked

----------------------------------------------------------------------------
(* Properties of the main loop (SpecApp)                                   *)

\* C9: a pass that starts in Idle and whose read() returned a click ends in
\* Menu with the navigation stack holding exactly the root menu, and the
\* root's index and view_offset are both 0.
C9_IdleClickOpensRoot ==
    (iter.state = STATE_IDLE /\ iter.clicked) =>
        /\ app.current_state = STATE_MENU
        /\ app.menu_stack = << "main" >>
        /\ app.menus["main"].index = 0
        /\ app.menus["main"].view_offset = 0

\* the click came while the root menu, left earlier, still had another item selected
C9_Witness ==
    /\ iter.state = STATE_IDLE
    /\ iter.clicked
    /\ iter.root_index # 0
    /\ app.current_state = STATE_MENU

\* C10: a pass that starts in Message, entered by an action item of a menu,
\* and whose read() returned a click before the view duration elapsed ends in
\* Menu with the navigation stack equal to the stack at the moment the action
\* item was clicked.
C10_MessageClickReturns ==
    (/\ iter.state = STATE_MESSAGE
     /\ iter.clicked
     /\ iter.early
     /\ iter.from_kind = "action") =>
        /\ app.current_state = STATE_MENU
        /\ app.menu_stack = iter.from_stack

\* the action was clicked two menus deep, and the message was clicked away early
C10_Witness ==
    /\ iter.state = STATE_MESSAGE
    /\ iter.clicked
    /\ iter.early
    /\ iter.from_kind = "action"
    /\ Len(iter.from_stack) = 2
    /\ app.current_state = STATE_MENU
    /\ app.menu_stack # << "main" >>

\* C11: a minigame launched from a navigation stack of depth d >= 2 ends in
\* Message with that stack recorded, and the pass that leaves this Message
\* (by click or by expiry) ends in Menu with the identical stack.
C11_MinigameRoundTrip ==
    /\ iter.from_kind = "minigame" => Len(iter.from_stack) >= 2
    /\ iter.state = STATE_MINIGAME =>
          /\ app.current_state = STATE_MESSAGE
          /\ app.menu_after_message = iter.from_stack
    /\ (/\ iter.state = STATE_MESSAGE
        /\ iter.from_kind = "minigame"
        /\ app.current_state # STATE_MESSAGE) =>
          /\ app.current_state = STATE_MENU
          /\ app.menu_stack = iter.from_stack

\* the message after a game launched three menus deep expired without a click
C11_Witness ==
    /\ iter.state = STATE_MESSAGE
    /\ iter.from_kind = "minigame"
    /\ ~iter.clicked
    /\ app.current_state = STATE_MENU
    /\ Len(app.menu_stack) = 3

\* C12: a pass never ends in Menu or Stats with 6000 ms or more elapsed since
\* the last interaction, and a pass that starts in Menu or Stats ends in Idle
\* only with no input read, at least 6000 ms elapsed and the stack emptied.
C12_IdleTimeoutExact ==
    LET elapsed == ticks_diff(app.clock, app.menu_last_interaction) IN
    /\ app.current_state \in {STATE_MENU, STATE_STATS} => elapsed < MENU_IDLE_TIMEOUT_MS
    /\ (iter.state \in {STATE_MENU, STATE_STATS} /\ app.current_state = STATE_IDLE) =>
          /\ ~iter.clicked
          /\ iter.delta = 0
          /\ elapsed >= MENU_IDLE_TIMEOUT_MS
          /\ app.menu_stack = << >>

\* the timeout fired in a submenu, two menus deep
C12_Witness ==
    /\ iter.state = STATE_MENU
    /\ app.current_state = STATE_IDLE
    /\ iter.left_depth = 2
    /\ app.menu_stack = << >>
    /\ ticks_diff(app.clock, app.menu_last_interaction) = MENU_IDLE_TIMEOUT_MS

\* C13: every gauge (Energy, Hunger, Health) is within [0, 100] after any
\* sequence of feed, play and doctor side effects and decay ticks.
C13_StatsInRange ==
    \A i \in DOMAIN STAT_KEYS :
        /\ app.stats_values[STAT_KEYS[i]] >= STAT_MIN
        /\ app.stats_values[STAT_KEYS[i]] <= STAT_MAX

\* a decay tick on a gauge already at 0, while another gauge had been pushed to 100
C13_Witness ==
    /\ iter.op = "decay"
    /\ iter.before["Energy"] = STAT_MIN
    /\ app.stats_values["Energy"] = STAT_MIN
    /\ iter.before["Health"] = STAT_MAX

\* C14: an exception raised by an action item's handler, by a minigame's
\* main_loop or by the play side effect after a game never leaves the main
\* loop: the loop goes on iterating.
C14_ExceptionsCaught == ~app.crashed

\* C26: when a minigame's main_loop has raised, the gauges and the mood after
\* the pass are those before it (no periodic tick is due within SpecAppFaults).
C26_FailedGameNoEffect ==
    (iter.state = STATE_MINIGAME /\ iter.game_failed /\ ~app.crashed) =>
        /\ app.stats_values = iter.stats_before
        /\ app.current_mood = iter.mood_before

\* menu above is reached from menu below through a submenu item of below
SubmenuOf(above, below) ==
    \E i \in DOMAIN app.menus[below].items :
        /\ app.menus[below].items[i].type = "submenu"
        /\ app.menus[below].items[i].submenu = above

\* C34: the navigation stack is well formed at every iteration boundary:
\* Idle implies an empty stack, Menu a non-empty one; a non-empty stack has
\* the root menu at the bottom, every element above it is a submenu of the
\* element directly below, which is its parent pointer, no menu occurs twice
\* and the depth is at most 3.
C34_StackWellFormed ==
    LET stack == app.menu_stack IN
    /\ app.current_state = STATE_IDLE => stack = << >>
    /\ app.current_state = STATE_MENU => stack # << >>
    /\ stack # << >> =>
          /\ stack[1] = "main"
          /\ \A i \in 2..Len(stack) :
                /\ SubmenuOf(stack[i], stack[i - 1])
                /\ app.menus[stack[i]].parent = stack[i - 1]
          /\ \A i \in 1..Len(stack), j \in 1..Len(stack) : i # j => stack[i] # stack[j]
          /\ Len(stack) <= 3

\* the deepest stack of the tree, reached by clicks from Idle
C34_Witness ==
    /\ app.current_state = STATE_MENU
    /\ app.menu_stack = << "main", "pet", "minigames" >>
    /\ iter.state = STATE_MENU
    /\ iter.clicked

\* C35: at every iteration boundary the state is Minigame exactly when a
\* minigame module is pending, and Minigame lasts one iteration: the pass that
\* starts in Minigame runs the game and ends in Message with nothing pending.
C35_MinigameOnePass ==
    /\ (app.current_state = STATE_MINIGAME) <=> (app.pending_minigame # None)
    /\ iter.state = STATE_MINIGAME =>
          /\ app.current_state = STATE_MESSAGE
          /\ app.pending_minigame = None

\* the pass after the launch from the minigames menu has run the game
C35_Witness ==
    /\ iter.state = STATE_MINIGAME
    /\ iter.from_kind = "minigame"
    /\ app.current_state = STATE_MESSAGE
    /\ app.message_text # ""
    /\ app.pending_minigame = None

\* C37: submenus are shared objects with asymmetric entry and exit.  A pass in
\* Menu that pushes a submenu leaves it on its first item (index 0, offset 0),
\* wherever it had been left before; a pass that pops one through Back leaves
\* the parent's selection as it was, on the submenu item of the menu popped.
C37_EntryResetsExitRestores ==
    (iter.state = STATE_MENU /\ app.current_state = STATE_MENU) =>
        /\ Len(app.menu_stack) = iter.depth_before + 1 =>
              /\ app.menus[Top(app.menu_stack)].index = 0
              /\ app.menus[Top(app.menu_stack)].view_offset = 0
        /\ Len(app.menu_stack) = iter.depth_before - 1 =>
              LET parent == app.menus[Top(app.menu_stack)] IN
              /\ parent.index = iter.top_index_before
              /\ Menu_selected(parent).type = "submenu"
              /\ Menu_selected(parent).submenu = iter.top_before

\* a submenu that had been left on another item is entered again
C37_Witness ==
    /\ iter.state = STATE_MENU
    /\ app.current_state = STATE_MENU
    /\ Len(app.menu_stack) = iter.depth_before + 1
    /\ iter.top_index_before # 0
    /\ app.menus[Top(app.menu_stack)].index = 0

\* C38: the Message screen after a minigame is timed from the moment the game
\* returned: at the end of the pass that ran the game both the message clock
\* and the idle clock hold the time of the return, however long the game ran,
\* and a later pass with no click that starts less than 3000 ms after the
\* return leaves the message up.
C38_MessageTimedFromReturn ==
    /\ iter.state = STATE_MINIGAME =>
          /\ app.current_state = STATE_MESSAGE
          /\ app.state_entered_at = ticks_ms
          /\ app.menu_last_interaction = ticks_ms
    /\ (/\ iter.state = STATE_MESSAGE
        /\ iter.from_kind = "minigame"
        /\ iter.early
        /\ ~iter.clicked) =>
          /\ app.current_state = STATE_MESSAGE
          /\ ticks_diff(ticks_ms, app.state_entered_at) < ACTION_VIEW_DURATION_MS

\* the game ran for the whole view duration; a pass right after its return,
\* with no click, has left the message up
C38_Witness ==
    /\ iter.state = STATE_MESSAGE
    /\ iter.from_kind = "minigame"
    /\ iter.early
    /\ ~iter.clicked
    /\ app.current_state = STATE_MESSAGE
    /\ app.state_entered_at = ticks_ms
    /\ ticks_ms >= ACTION_VIEW_DURATION_MS

\* C40: the root menu has no back item, so no click moves the machine into
\* Idle: a pass that started outside Idle, after startup, and ended in Idle
\* started in Menu or Stats over a non-empty stack, read neither a click nor a
\* step, and ran at least MENU_IDLE_TIMEOUT_MS after the last interaction; a
\* Message always has a non-empty recorded stack to return to and Stats is
\* always shown over a non-empty stack.
C40_IdleOnlyByTimeout ==
    /\ \A i \in DOMAIN app.menus["main"].items : app.menus["main"].items[i].type # "back"
    /\ app.current_state = STATE_MESSAGE =>
          /\ app.menu_after_message # << >>
          /\ app.message_return_state = STATE_MENU
    /\ app.current_state = STATE_STATS => app.menu_stack # << >>
    /\ (app.current_state = STATE_IDLE /\ iter.state \notin {"boot", STATE_IDLE}) =>
          /\ iter.state \in {STATE_MENU, STATE_STATS}
          /\ iter.left_depth >= 1
          /\ ~iter.clicked
          /\ iter.delta = 0
          /\ ticks_diff(app.clock, app.menu_last_interaction) >= MENU_IDLE_TIMEOUT_MS

\* the idle timeout fired on the Stats screen
C40_Witness ==
    /\ iter.state = STATE_STATS
    /\ app.current_state = STATE_IDLE
    /\ iter.left_depth = 1
    /\ app.menu_stack = << >>

----------------------------------------------------------------------------
(* Properties of one iteration from any navigation context (SpecStep)      *)

\* C15: a click on a back item in Menu, with more than one menu on the stack,
\* removes exactly the top one, leaves the state Menu and makes the former
\* parent the top; with one menu on the stack it empties the stack and the
\* state becomes Idle.
C15_BackPopsOneLevel ==
    StepClickOn("back") =>
        IF Len(iter.before.menu_stack) > 1
        THEN /\ app.current_state = STATE_MENU
             /\ app.menu_stack = SubSeq(iter.before.menu_stack, 1,
                                        Len(iter.before.menu_stack) - 1)
             /\ Top(app.menu_stack) = iter.before.menus[StepTopBefore].parent
        ELSE /\ app.current_state = STATE_IDLE
             /\ app.menu_stack = << >>

\* back was clicked three menus deep
C15_Witness ==
    /\ StepClickOn("back")
    /\ Len(iter.before.menu_stack) = 3
    /\ Len(app.menu_stack) = 2

\* C16: a click on a submenu item in Menu appends the child menu to the
\* navigation stack and changes nothing below it; the child's parent is the
\* menu that was on top, its index and view_offset are 0, the state is Menu.
C16_SubmenuPushesChild ==
    StepClickOn("submenu") =>
        LET child == StepItemClicked.submenu IN
        /\ app.current_state = STATE_MENU
        /\ Len(app.menu_stack) = Len(iter.before.menu_stack) + 1
        /\ Top(app.menu_stack) = child
        /\ SubSeq(app.menu_stack, 1, Len(iter.before.menu_stack)) = iter.before.menu_stack
        /\ app.menus[child].parent = StepTopBefore
        /\ app.menus[child].index = 0
        /\ app.menus[child].view_offset = 0

\* the child had been left with another item selected, and is entered two deep
C16_Witness ==
    /\ StepClickOn("submenu")
    /\ iter.before.menus[StepItemClicked.submenu].index # 0
    /\ Len(iter.before.menu_stack) = 2
    /\ Len(app.menu_stack) = 3

\* C36: when one read() returns both a nonzero step and a click in Menu, the
\* step is applied first: the selection of the menu on top becomes
\* (index + delta) mod item count, and the click activates the item at that
\* position, with the effect of that item's type.
C36_MoveThenClick ==
    (/\ iter.phase = "done"
     /\ iter.before.current_state = STATE_MENU
     /\ iter.clicked
     /\ iter.delta # 0) =>
        LET before == iter.before.menus[StepTopBefore]
            moved == (before.index + iter.delta) % Len(before.items)
            item == before.items[moved + 1]
        IN  /\ app.menus[StepTopBefore].index = moved
            /\ CASE item.type = "submenu" ->
                       app.menu_stack = Append(iter.before.menu_stack, item.submenu)
                 [] item.type = "back" ->
                       Len(app.menu_stack) = Len(iter.before.menu_stack) - 1
                 [] item.type = "state" -> app.current_state = item.state
                 [] item.type = "toggle" ->
                       app.manual_rain_mode # iter.before.manual_rain_mode
                 [] item.type = "minigame" ->
                       /\ app.current_state = STATE_MINIGAME
                       /\ app.pending_minigame = item.module
                 [] OTHER ->
                       IF item.handler = "handle_soft_reset" THEN app.rebooted
                       ELSE /\ app.current_state = STATE_MESSAGE
                            /\ app.message_text = item.message

\* the root menu had Pet selected; a step of +1 and a click in the same read()
\* opened Stats, the item after Pet, and did not enter the Pet submenu
C36_Witness ==
    /\ StepClickOn("state")
    /\ iter.delta = 1
    /\ iter.before.menu_stack = << "main" >>
    /\ iter.before.menus["main"].index = 0
    /\ app.current_state = STATE_STATS
    /\ app.menu_stack = << "main" >>

\* C17: an iteration in Message with no click leaves Message exactly when at
\* least 3000 ms have passed since the message was entered; it then goes to
\* Menu with the recorded stack if one was recorded, else to Idle with an
\* empty stack.
C17_MessageAutoDismiss ==
    (iter.phase = "done" /\ iter.before.current_state = STATE_MESSAGE /\ ~iter.clicked) =>
        IF iter.now - iter.before.state_entered_at >= ACTION_VIEW_DURATION_MS
        THEN IF iter.before.menu_after_message # << >>
             THEN /\ app.current_state = STATE_MENU
                  /\ app.menu_stack = iter.before.menu_after_message
             ELSE /\ app.current_state = STATE_IDLE
                  /\ app.menu_stack = << >>
        ELSE /\ app.current_state = STATE_MESSAGE
             /\ app.menu_after_message = iter.before.menu_after_message

\* the message expired, with no click, at exactly the view duration, and two
\* menus had been recorded
C17_Witness ==
    /\ iter.phase = "done"
    /\ iter.before.current_state = STATE_MESSAGE
    /\ ~iter.clicked
    /\ iter.now - iter.before.state_entered_at = ACTION_VIEW_DURATION_MS
    /\ Len(iter.before.menu_after_message) = 2
    /\ app.current_state = STATE_MENU

\* C18: a click in Stats over a non-empty navigation stack ends in Menu with
\* the stack and every menu's selection as they were, and with the idle
\* clock restarted, whatever time had passed; over an empty stack it ends in
\* Idle.  An iteration that stays in Stats changes neither stack nor menus,
\* and the click on the Stats item that enters Stats leaves the stack alone.
C18_StatsClickReturns ==
    /\ StepClickOn("state") =>
          /\ app.current_state = STATE_STATS
          /\ app.menu_stack = iter.before.menu_stack
    /\ (iter.phase = "done" /\ iter.before.current_state = STATE_STATS) =>
        /\ iter.clicked =>
              IF iter.before.menu_stack # << >>
              THEN /\ app.current_state = STATE_MENU
                   /\ app.menu_stack = iter.before.menu_stack
                   /\ app.menus = iter.before.menus
                   /\ app.menu_last_interaction = iter.now
              ELSE /\ app.current_state = STATE_IDLE
                   /\ app.menu_stack = << >>
        /\ app.current_state = STATE_STATS =>
              /\ app.menu_stack = iter.before.menu_stack
              /\ app.menus = iter.before.menus

\* the click came when the idle timeout was due, two menus deep
C18_Witness ==
    /\ iter.phase = "done"
    /\ iter.before.current_state = STATE_STATS
    /\ iter.clicked
    /\ iter.now - iter.before.menu_last_interaction >= MENU_IDLE_TIMEOUT_MS
    /\ Len(iter.before.menu_stack) = 2
    /\ app.current_state = STATE_MENU

----------------------------------------------------------------------------
(* Properties of the loop body (SpecIter)                                  *)

IsPrefix(s, t) == Len(s) <= Len(t) /\ s = SubSeq(t, 1, Len(s))
IterPassOver == iter.phase = "read" /\ iter.trace # << >>

\* C20: in every pass of the loop the parts executed so far are an initial
\* stretch of read, sensor, mood, weather, decay, animation, logic, render:
\* the input is read once and first, the ticks follow in that order, then the
\* state logic, and drawing, when it happens, is last; a pass draws only if at
\* least RENDER_INTERVAL_MS have passed since the previous drawing; before the
\* state logic the variables are those the five ticks in that order leave, and
\* a finished pass leaves what LoopPass computes from the pass's start.
C20_FixedOrder ==
    /\ IsPrefix(iter.trace, PhaseOrder)
    /\ (iter.trace # << >> /\ iter.trace[Len(iter.trace)] = "render") =>
          ticks_diff(iter.now, iter.start.last_render) >= RENDER_INTERVAL_MS
    /\ (iter.phase = "logic") =>
          app = BackgroundTicks([iter.start EXCEPT !.clock = iter.now], iter.now, iter.roll)
    /\ IterPassOver =>
          app = LoopPass(iter.start, iter.now, iter.delta, iter.clicked, iter.roll,
                         iter.took)

\* a finished pass in which every tick was due, the stats decayed, the state
\* logic left the menu by timeout and the new screen was drawn
C20_Witness ==
    /\ IterPassOver
    /\ iter.trace = PhaseOrder
    /\ iter.start.current_state = STATE_MENU
    /\ app.current_state = STATE_IDLE
    /\ app.last_sensor_update = iter.now
    /\ app.last_mood_change = iter.now
    /\ app.last_weather_update = iter.now
    /\ app.last_stat_decay = iter.now
    /\ app.last_frame_sw = iter.now
    /\ app.last_render = iter.now
    /\ iter.now > 0
    /\ app.stats_values # iter.start.stats_values

\* in SpecIter: main()'s variables of the finished pass after its ticks, and
\* what an item activation would have changed in them
IterTicked ==
    BackgroundTicks([iter.start EXCEPT !.clock = iter.now], iter.now, iter.roll)
IterNothingActivated ==
    /\ app.stats_values = IterTicked.stats_values
    /\ app.current_mood = IterTicked.current_mood
    /\ app.manual_rain_mode = iter.start.manual_rain_mode
    /\ app.pending_minigame = None
    /\ app.current_state \notin {STATE_MESSAGE, STATE_MINIGAME, STATE_STATS}
\* the effects a pass started in Menu had
IterMenuEffects ==
    LET b == iter.start IN
    { e \in {"push", "pop", "idle", "stats", "toggle", "launch", "action"} :
        \/ e = "push" /\ Len(app.menu_stack) = Len(b.menu_stack) + 1
        \/ e = "pop" /\ app.current_state = STATE_MENU
                     /\ Len(app.menu_stack) = Len(b.menu_stack) - 1
        \/ e = "idle" /\ app.current_state = STATE_IDLE
        \/ e = "stats" /\ app.current_state = STATE_STATS
        \/ e = "toggle" /\ app.manual_rain_mode # b.manual_rain_mode
        \/ e = "launch" /\ app.current_state = STATE_MINIGAME
        \/ e = "action" /\ app.current_state = STATE_MESSAGE }

\* C21: the click returned by the pass's read() is handled once.  The click
\* that opens the menu from Idle leaves the root menu on the stack alone and
\* activates nothing; the click that dismisses a Message or leaves Stats
\* restores the menu stack as it was, with the selection where it was, and
\* activates nothing; a click in a menu has exactly one effect.
C21_ClickHandledOnce ==
    (IterPassOver /\ iter.clicked) =>
        LET b == iter.start IN
        /\ b.current_state = STATE_IDLE =>
              /\ app.current_state = STATE_MENU
              /\ app.menu_stack = << "main" >>
              /\ IterNothingActivated
        /\ b.current_state = STATE_MESSAGE =>
              /\ IF b.message_return_state = STATE_MENU /\ b.menu_after_message # << >>
                 THEN /\ app.current_state = STATE_MENU
                      /\ app.menu_stack = b.menu_after_message
                      /\ app.menus[Top(app.menu_stack)].index
                            = b.menus[Top(app.menu_stack)].index
                 ELSE app.current_state = STATE_IDLE /\ app.menu_stack = << >>
              /\ IterNothingActivated
        /\ b.current_state = STATE_STATS =>
              /\ IF b.menu_stack # << >>
                 THEN /\ app.current_state = STATE_MENU
                      /\ app.menu_stack = b.menu_stack
                      /\ app.menus[Top(app.menu_stack)].index
                            = b.menus[Top(app.menu_stack)].index
                 ELSE app.current_state = STATE_IDLE /\ app.menu_stack = << >>
              /\ IterNothingActivated
        /\ b.current_state = STATE_MENU => Cardinality(IterMenuEffects) = 1

\* the click that opened the menu from Idle was not passed on to the root menu
C21_Witness ==
    /\ IterPassOver
    /\ iter.clicked
    /\ iter.start.current_state = STATE_IDLE
    /\ app.current_state = STATE_MENU
    /\ app.menu_stack = << "main" >>

\* in SpecIter: the finished pass launched a minigame / ran the pending one
IterLaunched == IterPassOver /\ app.current_state = STATE_MINIGAME
IterPlayed ==
    /\ IterPassOver
    /\ iter.start.current_state = STATE_MINIGAME
    /\ iter.start.pending_minigame # None

\* C25: the pass that launches a minigame applies no side effect; the pass that
\* runs it applies Energy -10, Hunger -5, Health +8, each clamped to [0, 100],
\* and mood Love once, is in Message from the moment the game has returned,
\* and carries the menu stack of the launch.
C25_PlayEffectOnce ==
    /\ IterLaunched =>
          /\ app.pending_minigame # None
          /\ app.minigame_return_menu_stack = iter.start.menu_stack
          /\ app.stats_values = IterTicked.stats_values
          /\ app.current_mood = IterTicked.current_mood
    /\ IterPlayed =>
          LET t == IterTicked.stats_values IN
          /\ app.stats_values =
                [Energy |-> Max(STAT_MIN, Min(STAT_MAX, t.Energy - 10)),
                 Hunger |-> Max(STAT_MIN, Min(STAT_MAX, t.Hunger - 5)),
                 Health |-> Max(STAT_MIN, Min(STAT_MAX, t.Health + 8))]
          /\ app.current_mood = "love"
          /\ app.current_state = STATE_MESSAGE
          /\ app.state_entered_at = iter.now + iter.took
          /\ app.pending_minigame = None
          /\ app.menu_stack = iter.start.minigame_return_menu_stack
          /\ app.menu_after_message = iter.start.minigame_return_menu_stack

\* a game launched three menus deep with Hunger 3 and Health 95 has been
\* played: both gauges were clamped, the stack of the launch is attached
C25_Witness ==
    /\ IterPlayed
    /\ app.current_state = STATE_MESSAGE
    /\ app.menu_stack = << "main", "pet", "minigames" >>
    /\ app.stats_values.Hunger = STAT_MIN
    /\ app.stats_values.Health = STAT_MAX
    /\ app.current_mood = "love"

----------------------------------------------------------------------------
(* SpecIrq: the hardware-counter decoder (rotary_encoder_irq.py, and the   *)
(* adapter class of main.py lines 36-116, which has the same handler and   *)
(* read()).  The button handler runs on every edge of the button line and  *)
(* runs to completion; read() is the main thread, statement by statement,  *)
(* and nothing keeps the handler from running between two of them.  iter   *)
(* holds the pulse counter and self._last_value; clicksPending counts the  *)
(* clicks the handler recorded that no read() has taken yet.               *)

IrqInit == iter = [value |-> 0, last_value |-> 0, delta_cap |-> DEFAULT_DELTA_CAP]

\* _button_handler, lines 72-85, on an edge of the button line
H_Button ==
    /\ button' = 1 - button
    /\ LET current == 1 - button
           now == ticks_ms
       IN  IF current = 0
           THEN /\ button_press_time' = now
                /\ UNCHANGED << button_clicked, clicksPending >>
           ELSE IF button_press_time # NoTime
                THEN /\ IF DebounceElapsed(now, button_press_time, button_debounce_ms)
                        THEN /\ button_clicked' = TRUE
                             /\ clicksPending' =
                                    IF button_clicked THEN clicksPending ELSE clicksPending + 1
                        ELSE UNCHANGED << button_clicked, clicksPending >>
                     /\ button_press_time' = NoTime
                ELSE UNCHANGED << button_press_time, button_clicked, clicksPending >>
    /\ UNCHANGED << ticks_ms, pin_a, pin_b, last_encoded, last_button, last_step_time,
                    last_button_time, rotation_delta, lock, sampler, consumer, outstanding,
                    pressAccepted, clicksDue, sinceRead, drift, allAdjacent >>
    /\ UNCHANGED << menuVars, app, iter >>

\* the pulse counter counts a detent of the knob
H_Count ==
    /\ \E d \in {-1, 1} :
          /\ Abs(iter.value + d) <= MaxBurst
          /\ iter' = [iter EXCEPT !.value = @ + d]
    /\ UNCHANGED << encVars, menuVars, app >>

\* read(), lines 98-113: the delta since the last read(), capped
K_Delta ==
    /\ consumer.pc = "idle"
    /\ consumer' = [pc |-> "load",
                    delta |-> CapDeltaTo(iter.value - iter.last_value, iter.delta_cap),
                    clicked |-> FALSE]
    /\ iter' = [iter EXCEPT !.last_value = iter.value]
    /\ UNCHANGED << ticks_ms, pins, encObject, lock, sampler, encHistory, sinceRead >>
    /\ UNCHANGED << menuVars, app >>

\* line 116: clicked = self._button_clicked
K_Load ==
    /\ consumer.pc = "load"
    /\ consumer' = [consumer EXCEPT !.pc = "clear", !.clicked = button_clicked]
    /\ clicksPending' = IF button_clicked THEN clicksPending - 1 ELSE clicksPending
    /\ UNCHANGED << ticks_ms, pins, encObject, lock, sampler, outstanding, pressAccepted,
                    clicksDue, drift, allAdjacent, sinceRead >>
    /\ UNCHANGED << menuVars, appVars >>

\* line 117: self._button_clicked = False
K_Clear ==
    /\ consumer.pc = "clear"
    /\ button_clicked' = FALSE
    /\ consumer' = [consumer EXCEPT !.pc = "release"]
    /\ UNCHANGED << ticks_ms, pins, last_encoded, last_button, last_step_time,
                    last_button_time, button_press_time, rotation_delta, lock, sampler,
                    encHistory, sinceRead >>
    /\ UNCHANGED << menuVars, appVars >>

\* line 119: return delta, clicked
K_Return ==
    /\ consumer.pc = "release"
    /\ consumer' = ConsumerIdle
    /\ UNCHANGED << ticks_ms, pins, encObject, lock, sampler, encHistory, sinceRead >>
    /\ UNCHANGED << menuVars, appVars >>

NextIrq == H_Button \/ H_Count \/ K_Delta \/ K_Load \/ K_Clear \/ K_Return \/ EnvTick

----------------------------------------------------------------------------
(* Properties of the hardware-counter decoder (SpecIrq)                    *)

\* C33: read() takes and clears the click flag atomically with respect to the
\* button handler: a click the handler recorded and no read() has taken is
\* still in the flag, in every interleaving of the handler with read().
C33_ClickNeverErased ==
    clicksPending > 0 => button_clicked

----------------------------------------------------------------------------
(* Properties of the loop left alone (SpecQuiet)                           *)

\* C32: return to the default screen is guaranteed: from Menu at any depth,
\* Stats, Message or Minigame, when no further step or click arrives, time
\* keeps advancing and the loop keeps iterating, the machine eventually is in
\* Idle with an empty navigation stack and stays there.
C32_ReturnsToIdle ==
    <>[](app.current_state = STATE_IDLE /\ app.menu_stack = << >>)

\* a run that started with a launched minigame, over the deepest stack, has
\* come to Idle
C32_Witness ==
    /\ iter.state = STATE_MINIGAME
    /\ iter.depth = 3
    /\ app.current_state = STATE_IDLE
    /\ app.menu_stack = << >>

----------------------------------------------------------------------------
(* Properties of the minigames (SpecGames)                                 *)

\* C22: every minigame hands control back, whatever the inputs.
C22_GamesReturn == <>(iter.pc = "returned")

\* the reaction game has returned after five rounds without a click and
\* without an exception
C22_Witness ==
    /\ iter.game = "minigame_a"
    /\ iter.pc = "returned"
    /\ iter.round = REACTION_ROUNDS
    /\ iter.clicks = 0
    /\ ~iter.raised

\* C23: while the spin game's loop runs the cap is above 1, whichever decoder
\* the application was built with, so a read() of that loop made when more
\* than one step has accumulated returns more than one step.
C23_SpinReadsBursts ==
    (iter.game = "minigame_c" /\ iter.pc \in {"c_poll", "c_prune"}) =>
        /\ iter.delta_cap > 1
        /\ (Abs(iter.read.steps) > 1 => Abs(iter.read.delta) > 1)

\* C24: when control returns from the spin game, by the timer, by a click
\* or by an exception caught in run_minigame, the decoder's cap is what it
\* was before the game.
C24_CapRestored ==
    (iter.game = "minigame_c" /\ iter.pc = "returned") => iter.delta_cap = iter.cap_before

----------------------------------------------------------------------------
(* The specifications.  Each drives one component; the others stay as      *)
(* constructed.                                                            *)

MenuParked == menu = Menu_init("Test", << >>, None, MENU_VISIBLE_COUNT) /\ menuCall = NoCall
AppParked ==
    /\ app = AppInitial(0, FALSE)
    /\ iter = IterInitial
EncParked ==
    /\ EncInit
    /\ pin_a = 1 /\ pin_b = 1 /\ button = 1

InitEnc == EncInit /\ MenuParked /\ AppParked
InitMenu == EncParked /\ MenuInit /\ AppParked
InitApp == EncParked /\ MenuParked /\ AppInit
InitStats == EncParked /\ MenuParked /\ StatsInit
InitStep == EncParked /\ MenuParked /\ StepInit
InitIter == EncParked /\ MenuParked /\ IterInit
InitEncPress == EncInit /\ MenuParked /\ app = AppInitial(0, FALSE) /\ LineInit
InitTable == EncInit /\ MenuParked /\ app = AppInitial(0, FALSE) /\ TableInit
InitIrq ==
    EncInit /\ pin_a = 1 /\ pin_b = 1 /\ MenuParked /\ app = AppInitial(0, FALSE) /\ IrqInit
InitQuiet == EncParked /\ MenuParked /\ QuietInit
InitGames == EncParked /\ MenuParked /\ GamesInit

SpecEnc == InitEnc /\ [][NextEnc]_vars
SpecMenu == InitMenu /\ [][NextMenu]_vars
SpecApp == InitApp /\ [][NextApp]_vars
SpecStats == InitStats /\ [][NextStats]_vars
SpecAppFaults == InitApp /\ [][NextAppFaults]_vars
SpecStep == InitStep /\ [][NextStep]_vars
SpecEncReset == InitEnc /\ [][NextEncReset]_vars
SpecIter == InitIter /\ [][NextIter]_vars
SpecTable == InitTable /\ [][NextTable]_vars
SpecIrq == InitIrq /\ [][NextIrq]_vars
SpecQuiet == InitQuiet /\ [][NextQuiet]_vars /\ WF_vars(NextQuiet)
SpecEncRace == InitEnc /\ [][NextEncRace]_vars
SpecEncPress == InitEncPress /\ [][NextEncPress]_vars
\* the thread that runs the game keeps running
SpecGames == InitGames /\ [][NextGames]_vars /\ WF_vars(NextGames)

====
